---- MODULE Spec2Model ----
(***************************************************************************)
(* Verification model of the redactable crate.                             *)
(*                                                                         *)
(* Part 1: the text policy engine (src/redactable/src/policy/text.rs).     *)
(* A Rust `str` is modelled as its UTF-8 byte sequence; `chars()` decodes  *)
(* it to Unicode scalar values and `collect::<String>()` encodes it back.  *)
(* A panic (slice out of range, arithmetic overflow) is the distinguished  *)
(* result Panic.                                                           *)
(*                                                                         *)
(* Part 2: the opaque JSON leaf (src/redactable/src/redaction/json.rs) as  *)
(* reached by the derived traversal                                        *)
(* (src/redactable-derive/src/transform.rs) and by the by-reference        *)
(* formatting path (src/redactable-derive/src/redacted_display.rs).        *)
(*                                                                         *)
(* Part 3: the derived traversal of records                                *)
(* (src/redactable-derive/src/transform.rs, derive_struct.rs) over the     *)
(* built-in container shapes (src/redactable/src/redaction/containers/).   *)
(*                                                                         *)
(* Part 4: Arc<T> / Rc<T> on a heap shared by several holders              *)
(* (src/redactable/src/redaction/containers/wrappers.rs).                  *)
(*                                                                         *)
(* Part 5: redact_with run as a call stack, one frame per nested call.     *)
(*                                                                         *)
(* Part 6: the derive parsing the attributes of the fields of a struct     *)
(* (src/redactable-derive/src/strategy.rs, derive_struct.rs).              *)
(*                                                                         *)
(* Part 7: the NotSensitive and NotSensitiveDisplay derives rejecting      *)
(* annotations (src/redactable-derive/src/lib.rs).                         *)
(*                                                                         *)
(* Part 8: the generic parameters a field's transform needs bounds for     *)
(* (src/redactable-derive/src/generics.rs, transform.rs, lib.rs).          *)
(*                                                                         *)
(* Part 9: the format mode of a placeholder's spec                         *)
(* (src/redactable-derive/src/redacted_display.rs).                        *)
(*                                                                         *)
(* Part 10: display templates: parsing the placeholders, planning the      *)
(* format arguments and rendering the redacted text                        *)
(* (src/redactable-derive/src/redacted_display.rs,                         *)
(* src/redactable/src/redaction/display.rs).                               *)
(***************************************************************************)
EXTENDS Integers, Sequences, FiniteSets, TLC

VARIABLES
    built,    \* the TextRedactionPolicy as its constructor returned it
    masked,   \* the mask char last passed to with_mask_char, "none" if never
    policy,   \* the TextRedactionPolicy in use (after with_mask_char calls)
    text,     \* the input as a sequence of Unicode scalar values
    value,    \* the input &str: the UTF-8 bytes of text
    once,     \* policy.apply_to(value), or NotRun
    twice,    \* policy.apply_to(once), or NotRun
    pc,       \* "built" | "applied" | "reapplied" ("idle": engine not in use)
    jfield,   \* a field holding serde_json::Value data: [ty, strategy, content]
    jout,     \* what the traversal left in that field
    jpc,      \* "planned" | "redacted" | "displayed" ("idle": not in use)
    wval,     \* the value handed to redact(): a tree of nodes
    wout,     \* redact(wval), or WalkNotRun
    wpc,      \* "planned" | "redacted" | "rejected" ("idle": not in use)
    heap,     \* address -> [live, val, count]: the Arc / Rc allocations
    holder,   \* holder -> [pc, ptr, dup, new]: a thread inside Arc::redact_with
    orig,     \* the pointee of the shared allocation at the start
    sval,     \* the value redact() was called on
    stack,    \* the frames of the redact_with calls in progress, outermost first
    sresult,  \* what the outermost call returned, or WalkNotRun
    smax,     \* the deepest the stack has been
    spc,      \* "running" | "done" ("idle": not in use)
    pschema,  \* the fields of the struct under derive: [attrs, ty] each
    pmode,    \* "Sensitive" | "SensitiveDisplay": the derive in use
    pidx,     \* the field the derive plans next
    perr,     \* the error the derive ended with: [field, msg]
    pemitted, \* the implementations the derive emitted
    ppc,      \* "planning" | "error" | "emitted" | "called" ("idle": not in use)
    ndecl,    \* the type under derive(NotSensitive..): [derive, attrs, kind, variants]
    nerr,     \* the error the derive ended with: [at, msg]
    nemitted, \* the implementations the derive emitted
    nval,     \* the value redact_with was last called on
    nout,     \* what that call returned
    npc,      \* "declared" | "error" | "emitted" | "called" ("idle": not in use)
    gschema,  \* the fields of a generic struct under derive(Sensitive): [strategy, ty] each
    gidx,     \* the field generate_field_transform is called on next
    gctx,     \* the DeriveContext: the four lists of generic parameters
    gsteps,   \* the step emitted for each field so far
    gbounds,  \* type parameter -> the bounds the emitted impls put on it
    gpc,      \* "planning" | "error" | "emitted" ("idle": not in use)
    mspec,    \* the text after ':' in a placeholder, as its chars
    mout,     \* format_mode_from_spec(mspec): [ok, mode, msg]; <<>> before the call
    mpc,      \* "parsed" | "decided" ("idle": not in use)
    tfields,  \* the fields of the struct under derive(SensitiveDisplay): [ident, ty, strategy, val] each
    ttemplate,\* the display template, as its chars
    tplan,    \* what build_format_args returned; <<>> before the derive ran
    tout,     \* what fmt_redacted wrote; <<>> before it ran
    tpc       \* "declared" | "error" | "emitted" | "rustc_error" | "compiled" | "formatted" ("idle": not in use)

textVars == <<built, masked, policy, text, value, once, twice, pc>>

jsonVars == <<jfield, jout, jpc>>

walkVars == <<wval, wout, wpc>>

arcVars == <<heap, holder, orig>>

stackVars == <<sval, stack, sresult, smax, spc>>

planVars == <<pschema, pmode, pidx, perr, pemitted, ppc>>

nsVars == <<ndecl, nerr, nemitted, nval, nout, npc>>

genVars == <<gschema, gidx, gctx, gsteps, gbounds, gpc>>

modeVars == <<mspec, mout, mpc>>

tplVars == <<tfields, ttemplate, tplan, tout, tpc>>

\* what each part leaves alone
notTextVars == <<jsonVars, walkVars, arcVars, stackVars, planVars, nsVars, genVars, modeVars, tplVars>>

notJsonVars == <<textVars, walkVars, arcVars, stackVars, planVars, nsVars, genVars, modeVars, tplVars>>

notWalkVars == <<textVars, jsonVars, arcVars, stackVars, planVars, nsVars, genVars, modeVars, tplVars>>

notArcVars == <<textVars, jsonVars, walkVars, stackVars, planVars, nsVars, genVars, modeVars, tplVars>>

notStackVars == <<textVars, jsonVars, walkVars, arcVars, planVars, nsVars, genVars, modeVars, tplVars>>

notPlanVars == <<textVars, jsonVars, walkVars, arcVars, stackVars, nsVars, genVars, modeVars, tplVars>>

notNsVars == <<textVars, jsonVars, walkVars, arcVars, stackVars, planVars, genVars, modeVars, tplVars>>

notGenVars == <<textVars, jsonVars, walkVars, arcVars, stackVars, planVars, nsVars, modeVars, tplVars>>

notModeVars == <<textVars, jsonVars, walkVars, arcVars, stackVars, planVars, nsVars, genVars, tplVars>>

notTplVars == <<textVars, jsonVars, walkVars, arcVars, stackVars, planVars, nsVars, genVars, modeVars>>

vars == <<textVars, jsonVars, walkVars, arcVars, stackVars, planVars, nsVars, genVars, modeVars, tplVars>>

-----------------------------------------------------------------------------
(* Bounds of the model *)

\* most holders of one shared allocation
MaxHolders == 3

\* most frames the call stack has room for
StackLimit == 8

\* most attributes on one field
MaxAttrs == 3

\* longest input string, in Unicode scalar values
MaxLen == 3

\* prefix/suffix counts are drawn from 0..MaxCount and from the top of usize
MaxCount == 4

-----------------------------------------------------------------------------
(* Machine integers *)

\* width of usize (a 16-bit Rust target; sums stay inside TLC's integers)
UsizeBits == 16

UsizeMax == 2^UsizeBits - 1

\* variant: the sum wraps (usize::wrapping_add) instead of saturating
wrapping_add(a, b) == (a + b) % (UsizeMax + 1)

\* usize::saturating_add
saturating_add(a, b) == IF a + b > UsizeMax THEN UsizeMax ELSE a + b

Counts == (0..MaxCount) \cup {UsizeMax - 1, UsizeMax}

-----------------------------------------------------------------------------
(* Strings: UTF-8 bytes and Unicode scalar values *)

\* the result of a panicking call; "PANIC" is not a byte of any string
Panic == <<"PANIC">>

\* once/twice before the call has been made
NotRun == <<"NOTRUN">>

\* Scalars of the inputs: ASCII 'a', '@', '*', and U+0301 (combining acute
\* accent), which takes two bytes (CC 81) in UTF-8.
Scalars == {"a", "@", "*", "U301"}

\* char::encode_utf8
EncodeChar(c) == IF c = "U301" THEN <<"CC", "81">> ELSE <<c>>

RECURSIVE Collect(_)
\* Iterator<Item = char>::collect::<String>()
Collect(cs) == IF cs = <<>> THEN <<>> ELSE EncodeChar(Head(cs)) \o Collect(Tail(cs))

\* variant: one unit per byte (str::bytes) instead of per scalar value
Chars_Bytes(b) == b

RECURSIVE Chars(_)
\* str::chars().collect::<Vec<char>>(): one unit per scalar value
Chars(b) ==
    IF b = <<>> THEN <<>>
    ELSE IF Head(b) = "CC" /\ Len(b) >= 2 /\ b[2] = "81"
         THEN <<"U301">> \o Chars(SubSeq(b, 3, Len(b)))
    ELSE IF Head(b) \in {"CC", "81"}
         THEN <<"INVALID">> \o Chars(Tail(b))
    ELSE <<Head(b)>> \o Chars(Tail(b))

\* pub const REDACTED_PLACEHOLDER: &str = "[REDACTED]"
REDACTED_PLACEHOLDER == <<"[", "R", "E", "D", "A", "C", "T", "E", "D", "]">>

\* pub const MASK_CHAR: char = '*'
MASK_CHAR == "*"

\* &mut chars[a..b] filled with c; panics when the range is out of bounds
FillRange(chars, a, b, c) ==
    IF a > b \/ b > Len(chars) THEN Panic
    ELSE [i \in 1..Len(chars) |-> IF i > a /\ i <= b THEN c ELSE chars[i]]

\* usize subtraction a - b: overflow panics (debug) or wraps to a value
\* beyond any length, which the following slice rejects (release)
SubOverflows(a, b) == b > a

\* variant: str::rfind, the byte offset of the last occurrence
rfind(b, c) ==
    IF \E i \in 1..Len(b) : b[i] = c
    THEN (CHOOSE i \in 1..Len(b) : b[i] = c /\ \A j \in (i + 1)..Len(b) : b[j] # c) - 1
    ELSE -1

\* str::find('@'): byte offset of the first '@', or -1 for None
find(b, c) ==
    IF \E i \in 1..Len(b) : b[i] = c
    THEN (CHOOSE i \in 1..Len(b) : b[i] = c /\ \A j \in 1..(i - 1) : b[j] # c) - 1
    ELSE -1

\* str::is_char_boundary
is_char_boundary(b, at) ==
    \/ at = 0
    \/ at = Len(b)
    \/ at > 0 /\ at < Len(b) /\ b[at + 1] # "81"

\* &value[..at]
StrTo(b, at) == IF is_char_boundary(b, at) THEN SubSeq(b, 1, at) ELSE Panic

\* &value[at..]
StrFrom(b, at) == IF is_char_boundary(b, at) THEN SubSeq(b, at + 1, Len(b)) ELSE Panic

\* std::iter::repeat_n(c, n).collect::<String>()
RepeatN(c, n) == Collect([i \in 1..n |-> c])

-----------------------------------------------------------------------------
(* Policies *)

\* KeepConfig::both(visible_prefix, visible_suffix); first(n) = both(n, 0),
\* last(n) = both(0, n)
KeepBoth(p, s) ==
    [kind |-> "Keep", placeholder |-> <<>>, prefix |-> p, suffix |-> s, mask_char |-> MASK_CHAR]

\* MaskConfig::both(mask_prefix, mask_suffix)
MaskBoth(p, s) ==
    [kind |-> "Mask", placeholder |-> <<>>, prefix |-> p, suffix |-> s, mask_char |-> MASK_CHAR]

\* EmailConfig::new(visible_prefix)
EmailNew(k) ==
    [kind |-> "Email", placeholder |-> <<>>, prefix |-> k, suffix |-> 0, mask_char |-> MASK_CHAR]

\* TextRedactionPolicy::full_with(placeholder); a Full policy has no mask char
full_with(ph) ==
    [kind |-> "Full", placeholder |-> ph, prefix |-> 0, suffix |-> 0, mask_char |-> "none"]

\* TextRedactionPolicy::default_full()
default_full == full_with(REDACTED_PLACEHOLDER)

\* TextRedactionPolicy::with_mask_char
with_mask_char(pol, c) ==
    IF pol.kind = "Full" THEN pol ELSE [pol EXCEPT !.mask_char = c]

\* variant: no placeholder for the empty input
KeepApplyTo_NoEmptyCheck(cfg, v) ==
    LET chars == Chars(v)
        total == Len(chars)
    IN  IF saturating_add(cfg.prefix, cfg.suffix) >= total THEN Collect(chars)
        ELSE IF SubOverflows(total, cfg.suffix) THEN Panic
        ELSE LET filled == FillRange(chars, cfg.prefix, total - cfg.suffix, cfg.mask_char)
             IN  IF filled = Panic THEN Panic ELSE Collect(filled)

\* variant: the keep-everything test looks at the prefix only
KeepApplyTo_PrefixOnly(cfg, v) ==
    LET chars == Chars(v)
        total == Len(chars)
    IN  IF total = 0 THEN REDACTED_PLACEHOLDER
        ELSE IF cfg.prefix >= total THEN Collect(chars)
        ELSE IF SubOverflows(total, cfg.suffix) THEN Panic
        ELSE LET filled == FillRange(chars, cfg.prefix, total - cfg.suffix, cfg.mask_char)
             IN  IF filled = Panic THEN Panic ELSE Collect(filled)

\* KeepConfig::apply_to
KeepApplyTo(cfg, v) ==
    LET chars == Chars(v)
        total == Len(chars)
    IN  IF total = 0 THEN REDACTED_PLACEHOLDER
        ELSE IF saturating_add(cfg.prefix, cfg.suffix) >= total THEN Collect(chars)
        ELSE IF SubOverflows(total, cfg.suffix) THEN Panic
        ELSE LET filled == FillRange(chars, cfg.prefix, total - cfg.suffix, cfg.mask_char)
             IN  IF filled = Panic THEN Panic ELSE Collect(filled)

\* variant: prefix and suffix counts exchanged
MaskApplyTo_Swapped(cfg, v) ==
    LET chars == Chars(v)
        total == Len(chars)
    IN  IF total = 0 THEN REDACTED_PLACEHOLDER
        ELSE IF saturating_add(cfg.prefix, cfg.suffix) >= total
             THEN Collect(FillRange(chars, 0, total, cfg.mask_char))
        ELSE LET pre == FillRange(chars, 0, cfg.suffix, cfg.mask_char)
             IN  IF pre = Panic THEN Panic
                 ELSE IF cfg.prefix > 0
                      THEN IF SubOverflows(total, cfg.prefix) THEN Panic
                           ELSE LET suf == FillRange(pre, total - cfg.prefix, total, cfg.mask_char)
                                IN  IF suf = Panic THEN Panic ELSE Collect(suf)
                 ELSE Collect(pre)

\* variant: covering spans return the input unchanged, as Keep does
MaskApplyTo_KeepOnCover(cfg, v) ==
    LET chars == Chars(v)
        total == Len(chars)
    IN  IF total = 0 THEN REDACTED_PLACEHOLDER
        ELSE IF saturating_add(cfg.prefix, cfg.suffix) >= total
             THEN Collect(chars)
        ELSE LET pre == FillRange(chars, 0, cfg.prefix, cfg.mask_char)
             IN  IF pre = Panic THEN Panic
                 ELSE IF cfg.suffix > 0
                      THEN IF SubOverflows(total, cfg.suffix) THEN Panic
                           ELSE LET suf == FillRange(pre, total - cfg.suffix, total, cfg.mask_char)
                                IN  IF suf = Panic THEN Panic ELSE Collect(suf)
                 ELSE Collect(pre)

\* MaskConfig::apply_to
MaskApplyTo(cfg, v) ==
    LET chars == Chars(v)
        total == Len(chars)
    IN  IF total = 0 THEN REDACTED_PLACEHOLDER
        ELSE IF saturating_add(cfg.prefix, cfg.suffix) >= total
             THEN Collect(FillRange(chars, 0, total, cfg.mask_char))
        ELSE LET pre == FillRange(chars, 0, cfg.prefix, cfg.mask_char)
             IN  IF pre = Panic THEN Panic
                 ELSE IF cfg.suffix > 0
                      THEN IF SubOverflows(total, cfg.suffix) THEN Panic
                           ELSE LET suf == FillRange(pre, total - cfg.suffix, total, cfg.mask_char)
                                IN  IF suf = Panic THEN Panic ELSE Collect(suf)
                 ELSE Collect(pre)

\* variant: masked_count is the whole local length, not local_len - prefix
EmailApplyTo_MaskedCount(cfg, v) ==
    LET chars == Chars(v)
        total == Len(chars)
        at_pos == find(v, "@")
    IN  IF total = 0 THEN REDACTED_PLACEHOLDER
        ELSE IF at_pos # -1
        THEN LET local == StrTo(v, at_pos)
                 domain == StrFrom(v, at_pos)
             IN  IF local = Panic \/ domain = Panic THEN Panic
                 ELSE LET local_chars == Chars(local)
                          local_len == Len(local_chars)
                      IN  IF cfg.prefix >= local_len THEN v
                          ELSE Collect(SubSeq(local_chars, 1, cfg.prefix))
                                 \o RepeatN(cfg.mask_char, local_len)
                                 \o domain
        ELSE IF cfg.prefix >= total THEN v
        ELSE LET result == FillRange(chars, cfg.prefix, total, cfg.mask_char)
             IN  IF result = Panic THEN Panic ELSE Collect(result)

\* EmailConfig::apply_to
EmailApplyTo(cfg, v) ==
    LET chars == Chars(v)
        total == Len(chars)
        at_pos == find(v, "@")
    IN  IF total = 0 THEN REDACTED_PLACEHOLDER
        ELSE IF at_pos # -1
        THEN LET local == StrTo(v, at_pos)
                 domain == StrFrom(v, at_pos)
             IN  IF local = Panic \/ domain = Panic THEN Panic
                 ELSE LET local_chars == Chars(local)
                          local_len == Len(local_chars)
                      IN  IF cfg.prefix >= local_len THEN v
                          ELSE Collect(SubSeq(local_chars, 1, cfg.prefix))
                                 \o RepeatN(cfg.mask_char, local_len - cfg.prefix)
                                 \o domain
        ELSE IF cfg.prefix >= total THEN v
        ELSE LET result == FillRange(chars, cfg.prefix, total, cfg.mask_char)
             IN  IF result = Panic THEN Panic ELSE Collect(result)

\* variant: Full always answers the default placeholder
apply_to_DefaultPlaceholder(pol, v) ==
    CASE pol.kind = "Full"  -> REDACTED_PLACEHOLDER
      [] pol.kind = "Keep"  -> KeepApplyTo(pol, v)
      [] pol.kind = "Mask"  -> MaskApplyTo(pol, v)
      [] pol.kind = "Email" -> EmailApplyTo(pol, v)

\* TextRedactionPolicy::apply_to
apply_to(pol, v) ==
    CASE pol.kind = "Full"  -> pol.placeholder
      [] pol.kind = "Keep"  -> KeepApplyTo(pol, v)
      [] pol.kind = "Mask"  -> MaskApplyTo(pol, v)
      [] pol.kind = "Email" -> EmailApplyTo(pol, v)

-----------------------------------------------------------------------------
(* Inputs *)

ScalarStrings == UNION {[1..n -> Scalars] : n \in 0..MaxLen}

\* placeholders a Full policy is configured with: the default, "<r>", ""
Placeholders == {REDACTED_PLACEHOLDER, <<"<", "r", ">">>, <<>>}

\* mask characters configured through with_mask_char
MaskChars == {"*", "#", "@"}

Constructed ==
    {full_with(ph) : ph \in Placeholders}
    \cup {KeepBoth(p, s) : p \in Counts, s \in Counts}
    \cup {MaskBoth(p, s) : p \in Counts, s \in Counts}
    \cup {EmailNew(k) : k \in Counts}

-----------------------------------------------------------------------------
(* The policy engine as a state machine *)

\* the JSON part, not in use
JsonIdle ==
    /\ jfield = [ty |-> "none", strategy |-> "WalkDefault", content |-> <<>>]
    /\ jout = <<>>
    /\ jpc = "idle"

\* the record traversal, not in use
WalkIdle ==
    /\ wval = <<>>
    /\ wout = <<>>
    /\ wpc = "idle"

\* the shared pointer, not in use
ArcIdle ==
    /\ heap = <<>>
    /\ holder = <<>>
    /\ orig = <<>>

\* the call stack, not in use
StackIdle ==
    /\ sval = <<>>
    /\ stack = <<>>
    /\ sresult = <<>>
    /\ smax = 0
    /\ spc = "idle"

\* the derive, not in use
PlanIdle ==
    /\ pschema = <<>>
    /\ pmode = "none"
    /\ pidx = 0
    /\ perr = [field |-> 0, msg |-> ""]
    /\ pemitted = {}
    /\ ppc = "idle"

\* the not-sensitive derives, not in use
NsIdle ==
    /\ ndecl = <<>>
    /\ nerr = <<>>
    /\ nemitted = {}
    /\ nval = <<>>
    /\ nout = <<>>
    /\ npc = "idle"

\* the collection of generic parameters, not in use
GenIdle ==
    /\ gschema = <<>>
    /\ gidx = 0
    /\ gctx = <<>>
    /\ gsteps = <<>>
    /\ gbounds = <<>>
    /\ gpc = "idle"

\* the format specs, not in use
ModeIdle ==
    /\ mspec = <<>>
    /\ mout = <<>>
    /\ mpc = "idle"

\* the display template, not in use
TplIdle ==
    /\ tfields = <<>>
    /\ ttemplate = <<>>
    /\ tplan = <<>>
    /\ tout = <<>>
    /\ tpc = "idle"

InitText ==
    /\ JsonIdle
    /\ WalkIdle
    /\ ArcIdle
    /\ StackIdle
    /\ PlanIdle
    /\ NsIdle
    /\ GenIdle
    /\ ModeIdle
    /\ TplIdle
    /\ built \in Constructed
    /\ policy = built
    /\ masked = "none"
    /\ text \in ScalarStrings
    /\ value = Collect(text)
    /\ once = NotRun
    /\ twice = NotRun
    /\ pc = "built"

\* policy = policy.with_mask_char(c)
WithMaskChar ==
    /\ pc = "built"
    /\ \E c \in MaskChars :
          /\ policy' = with_mask_char(policy, c)
          /\ masked' = c
    /\ UNCHANGED <<built, text, value, once, twice, pc>>
    /\ UNCHANGED notTextVars

\* once = policy.apply_to(value)
ApplyTo ==
    /\ pc = "built"
    /\ once' = apply_to(policy, value)
    /\ pc' = "applied"
    /\ UNCHANGED <<built, masked, policy, text, value, twice>>
    /\ UNCHANGED notTextVars

\* twice = policy.apply_to(once)
Reapply ==
    /\ pc = "applied"
    /\ once # Panic
    /\ twice' = apply_to(policy, once)
    /\ pc' = "reapplied"
    /\ UNCHANGED <<built, masked, policy, text, value, once>>
    /\ UNCHANGED notTextVars

NextText == WithMaskChar \/ ApplyTo \/ Reapply

SpecText == InitText /\ [][NextText]_vars

-----------------------------------------------------------------------------
(* Properties of the text policy engine, checked under SpecText *)

Applied == pc \in {"applied", "reapplied"}

\* the scalar sequence t with the positions in S replaced by c, as a &str
MaskedAt(t, S, c) == Collect([i \in 1..Len(t) |-> IF i \in S THEN c ELSE t[i]])

HasAt == \E i \in 1..Len(text) : text[i] = "@"

\* number of scalar values before the first '@' of text
LocalLen == (CHOOSE i \in 1..Len(text) : text[i] = "@" /\ \A j \in 1..(i - 1) : text[j] # "@") - 1

\* b is a string: not a panic, and well-formed UTF-8
IsString(b) == b # Panic /\ \A i \in 1..Len(Chars(b)) : Chars(b)[i] # "INVALID"

\* C1: a Full policy with placeholder p answers exactly p on every non-empty
\* input, and with_mask_char leaves a Full policy as it was constructed.
C1_FullReturnsPlaceholder ==
    built.kind = "Full" =>
        /\ policy = built
        /\ (Applied /\ text # <<>>) => once = built.placeholder

C1_Witness ==
    /\ pc = "applied"
    /\ built = full_with(<<"<", "r", ">">>)
    /\ masked = "#"
    /\ text = <<"a", "U301">>
    /\ once = <<"<", "r", ">">>

\* C2 as stated: on the empty string every policy kind, under every
\* configuration, answers the fixed placeholder "[REDACTED]", never "".
C2_EmptyGivesFixedPlaceholder ==
    (Applied /\ text = <<>>) => (once = REDACTED_PLACEHOLDER /\ once # <<>>)

\* C2 amended: on the empty string Keep, Mask and Email answer "[REDACTED]"
\* under every configuration; Full answers its configured placeholder.
C2_EmptyGivesPlaceholder ==
    (Applied /\ text = <<>>) =>
        once = IF built.kind = "Full" THEN built.placeholder ELSE REDACTED_PLACEHOLDER

C2_Witness ==
    /\ pc = "applied"
    /\ text = <<>>
    /\ built = KeepBoth(1, 0)
    /\ masked = "#"
    /\ once = REDACTED_PLACEHOLDER

\* C4: Keep(prefix, suffix) on n scalars with prefix + suffix < n yields n
\* scalars, the mask character at every position of [prefix, n - suffix) and
\* the input's scalar everywhere else, positions counted in scalar values.
C4_KeepMasksMiddle ==
    (Applied /\ policy.kind = "Keep" /\ policy.prefix + policy.suffix < Len(text)) =>
        once = MaskedAt(text, (policy.prefix + 1)..(Len(text) - policy.suffix), policy.mask_char)

C4_Witness ==
    /\ pc = "applied"
    /\ policy = KeepBoth(1, 1)
    /\ text = <<"U301", "a", "U301">>
    /\ once = <<"CC", "81", "*", "CC", "81">>

\* C5 as stated: Keep(prefix, suffix) returns every input s with
\* prefix + suffix >= length(s) unchanged.
C5_KeepCoverUnchangedAnyInput ==
    (Applied /\ policy.kind = "Keep" /\ policy.prefix + policy.suffix >= Len(text)) =>
        once = value

\* C5 amended: Keep(prefix, suffix) returns every non-empty input s with
\* prefix + suffix >= length(s) unchanged, also for counts at the top of usize.
C5_KeepCoverUnchanged ==
    (Applied /\ policy.kind = "Keep" /\ text # <<>>
       /\ policy.prefix + policy.suffix >= Len(text)) =>
        once = value

C5_Witness ==
    /\ pc = "applied"
    /\ policy = KeepBoth(UsizeMax, UsizeMax)
    /\ text = <<"a", "U301">>
    /\ once = <<"a", "CC", "81">>

\* C6: Mask(prefix, suffix) on n scalars with prefix + suffix < n yields n
\* scalars, the mask character at every position of [0, prefix) and of
\* [n - suffix, n), and the input's scalar in the middle.
C6_MaskMasksEnds ==
    (Applied /\ policy.kind = "Mask" /\ policy.prefix + policy.suffix < Len(text)) =>
        once = MaskedAt(text,
                        (1..policy.prefix) \cup ((Len(text) - policy.suffix + 1)..Len(text)),
                        policy.mask_char)

C6_Witness ==
    /\ pc = "applied"
    /\ built = MaskBoth(1, 1)
    /\ masked = "#"
    /\ text = <<"a", "U301", "@">>
    /\ once = <<"#", "CC", "81", "#">>

\* C7 as stated: Mask(prefix, suffix) turns every input s with
\* prefix + suffix >= length(s) into length(s) mask characters.
C7_MaskCoverAllMaskedAnyInput ==
    (Applied /\ policy.kind = "Mask" /\ policy.prefix + policy.suffix >= Len(text)) =>
        once = MaskedAt(text, 1..Len(text), policy.mask_char)

\* C7 amended: Mask(prefix, suffix) turns every non-empty input s with
\* prefix + suffix >= length(s) into length(s) mask characters.
C7_MaskCoverAllMasked ==
    (Applied /\ policy.kind = "Mask" /\ text # <<>>
       /\ policy.prefix + policy.suffix >= Len(text)) =>
        once = MaskedAt(text, 1..Len(text), policy.mask_char)

C7_Witness ==
    /\ pc = "applied"
    /\ policy = MaskBoth(2, 2)
    /\ text = <<"a", "@", "U301">>
    /\ once = <<"*", "*", "*">>

\* C8: Email(k) on a non-empty input with an '@' keeps the first k scalars of
\* the local part (the m scalars before the first '@'), masks the other
\* m - k and appends the domain from that '@' on unchanged, the input being
\* unchanged when k >= m; without an '@' it answers what Keep(k, 0) with the
\* same mask character answers.
C8_EmailSplitsAtFirstAt ==
    (Applied /\ policy.kind = "Email" /\ text # <<>>) =>
        IF HasAt
        THEN once = IF policy.prefix >= LocalLen THEN value
                    ELSE MaskedAt(text, (policy.prefix + 1)..LocalLen, policy.mask_char)
        ELSE once = KeepApplyTo(with_mask_char(KeepBoth(policy.prefix, 0), policy.mask_char), value)

C8_Witness ==
    /\ pc = "applied"
    /\ policy = EmailNew(1)
    /\ text = <<"U301", "a", "@">>
    /\ once = <<"CC", "81", "*", "@">>

\* C9 as stated: Keep, Mask and Email are idempotent on every input string.
C9_IdempotentAnyInput ==
    (pc = "reapplied" /\ policy.kind \in {"Keep", "Mask", "Email"}) => twice = once

\* C9 amended: Keep, Mask and Email are idempotent on every non-empty input
\* string.
C9_IdempotentNonEmpty ==
    (pc = "reapplied" /\ policy.kind \in {"Keep", "Mask", "Email"} /\ text # <<>>) =>
        twice = once

C9_Witness ==
    /\ pc = "reapplied"
    /\ built = EmailNew(1)
    /\ masked = "@"
    /\ text = <<"a", "a", "@">>
    /\ once = <<"a", "@", "@">>
    /\ twice = once

\* C10: apply_to is total: for every policy kind, every count up to the
\* maximum usize, every mask character and every input it returns a string,
\* with no overflow and no out-of-range slice.
C10_ApplyTotal ==
    /\ Applied => IsString(once)
    /\ pc = "reapplied" => IsString(twice)

C10_Witness ==
    /\ pc = "applied"
    /\ built = MaskBoth(UsizeMax, UsizeMax)
    /\ masked = "@"
    /\ text = <<"U301">>
    /\ once = <<"@">>

-----------------------------------------------------------------------------
(* The opaque JSON leaf: serde_json::Value under the derived traversal *)

\* most elements of a Vec<Value> field
MaxItems == 2

\* a serde_json::Value: its variant and its content flattened to tokens
JNull == [tag |-> "Null", s |-> <<>>]
JBool == [tag |-> "Bool", s |-> <<"true">>]
JNumber == [tag |-> "Number", s |-> <<"4", "2">>]
JString(b) == [tag |-> "String", s |-> b]
JArray == [tag |-> "Array", s |-> <<"1", "a">>]
JObject == [tag |-> "Object", s |-> <<"k", "a">>]

\* text written to a formatter
Text(b) == [tag |-> "Text", s |-> b]

JsonValues ==
    {JNull, JBool, JNumber, JArray, JObject,
     JString(<<>>), JString(<<"a", "a", "a", "a", "a">>), JString(REDACTED_PLACEHOLDER)}

\* policy markers of policies.rs, the carve-out marker Error, and a custom
\* marker whose policy is keep_last(4) (tests/integration_serde_json.rs)
Markers == {"Default", "Token", "Email", "Pii", "Custom", "Error"}

\* <P as RedactionPolicy>::policy()
RedactionPolicy(P) ==
    CASE P = "Default" -> default_full
      [] P = "Token"   -> KeepBoth(0, 4)
      [] P = "Email"   -> EmailNew(2)
      [] P = "Pii"     -> KeepBoth(0, 2)
      [] P = "Custom"  -> KeepBoth(0, 4)

\* variant: a JSON string is treated as a leaf and gets the marker's policy
JsonApplyPolicy_Leaf(P, v) ==
    IF v.tag = "String" THEN JString(apply_to(RedactionPolicy(P), v.s))
    ELSE JString(REDACTED_PLACEHOLDER)

\* <serde_json::Value as PolicyApplicable>::apply_policy::<P, M>
JsonApplyPolicy(P, v) == JString(REDACTED_PLACEHOLDER)

\* <serde_json::Value as PolicyApplicableRef>::apply_policy_ref::<P, M>
JsonApplyPolicyRef(P, v) == JString(REDACTED_PLACEHOLDER)

\* <serde_json::Value as RedactableWithMapper>::redact_with
JsonRedactWith(v) == JString(REDACTED_PLACEHOLDER)

\* <serde_json::Value as RedactableDisplay>::fmt_redacted
JsonFmtRedacted(v) == Text(REDACTED_PLACEHOLDER)

\* An Option is the sequence of its zero or one values, a Vec the sequence
\* of its elements.
\* value.redact_with(mapper) on an element of type T
ElemRedactWith(T, v) ==
    CASE T = "Value" -> JsonRedactWith(v)

\* <Option<T> as RedactableWithMapper>::redact_with: self.map(..)
OptionRedactWith(T, o) == IF o = <<>> THEN <<>> ELSE <<ElemRedactWith(T, o[1])>>

\* <Vec<T> as RedactableWithMapper>::redact_with: into_iter().map(..).collect()
VecRedactWith(T, xs) == [i \in 1..Len(xs) |-> ElemRedactWith(T, xs[i])]

\* container_path::redact_with(binding, mapper), resolved by the field type
RedactWith(ty, content) ==
    CASE ty = "Value"         -> <<JsonRedactWith(content[1])>>
      [] ty = "Option<Value>" -> OptionRedactWith("Value", content)
      [] ty = "Vec<Value>"    -> VecRedactWith("Value", content)

\* generate_field_transform for a non-scalar field type
generate_field_transform(ty, strategy, content) ==
    IF strategy = "WalkDefault" THEN RedactWith(ty, content)
    ELSE IF strategy = "Error" THEN RedactWith(ty, content)
    ELSE <<JsonApplyPolicy(strategy, content[1])>>

\* redacted_expr_for_field for a non-scalar field type: the rendering that is
\* bound to the field's placeholder
redacted_expr_for_field(ty, strategy, content) ==
    IF strategy = "WalkDefault" THEN <<JsonFmtRedacted(content[1])>>
    ELSE <<JsonApplyPolicyRef(strategy, content[1])>>

\* the text part, not in use
TextIdle ==
    /\ built = default_full
    /\ policy = default_full
    /\ masked = "none"
    /\ text = <<>>
    /\ value = <<>>
    /\ once = NotRun
    /\ twice = NotRun
    /\ pc = "idle"

\* Fields the derive accepts here: a bare Value under any strategy; an
\* Option<Value> or Vec<Value> under the strategies that walk it.
JsonFields ==
    {[ty |-> "Value", strategy |-> st, content |-> <<v>>] :
        st \in {"WalkDefault"} \cup Markers, v \in JsonValues}
    \cup {[ty |-> "Option<Value>", strategy |-> st, content |-> c] :
        st \in {"WalkDefault", "Error"}, c \in {<<>>} \cup {<<v>> : v \in JsonValues}}
    \cup {[ty |-> "Vec<Value>", strategy |-> st, content |-> c] :
        st \in {"WalkDefault", "Error"},
        c \in UNION {[1..n -> JsonValues] : n \in 0..MaxItems}}

InitJson ==
    /\ TextIdle
    /\ WalkIdle
    /\ ArcIdle
    /\ StackIdle
    /\ PlanIdle
    /\ NsIdle
    /\ GenIdle
    /\ ModeIdle
    /\ TplIdle
    /\ jfield \in JsonFields
    /\ jout = <<>>
    /\ jpc = "planned"

\* value.redact(): the derived redact_with rebuilds the field by value
Redact ==
    /\ jpc = "planned"
    /\ jout' = generate_field_transform(jfield.ty, jfield.strategy, jfield.content)
    /\ jpc' = "redacted"
    /\ UNCHANGED <<jfield, notJsonVars>>

\* value.redacted_display(): the derived formatter reads the field by reference
RedactedDisplay ==
    /\ jpc = "planned"
    /\ jfield.ty = "Value"
    /\ jout' = redacted_expr_for_field(jfield.ty, jfield.strategy, jfield.content)
    /\ jpc' = "displayed"
    /\ UNCHANGED <<jfield, notJsonVars>>

NextJson == Redact \/ RedactedDisplay

SpecJson == InitJson /\ [][NextJson]_vars

\* C3: every traversal that reaches a serde_json::Value leaves the string
\* placeholder "[REDACTED]" in its place, whether the field is unannotated or
\* carries any policy marker, and whether it is reached by value or by
\* reference; the shape around it is kept and nothing of the content survives.
C3_JsonAlwaysRedacted ==
    /\ jpc = "redacted" =>
          /\ Len(jout) = Len(jfield.content)
          /\ \A i \in 1..Len(jout) : jout[i] = JString(REDACTED_PLACEHOLDER)
    /\ jpc = "displayed" =>
          /\ Len(jout) = 1
          /\ jout[1].s = REDACTED_PLACEHOLDER
          /\ jout[1].tag = IF jfield.strategy = "WalkDefault" THEN "Text" ELSE "String"

C3_Witness ==
    /\ jpc = "redacted"
    /\ jfield = [ty |-> "Value", strategy |-> "Custom",
                 content |-> <<JString(<<"a", "a", "a", "a", "a">>)>>]
    /\ jout = <<JString(REDACTED_PLACEHOLDER)>>

-----------------------------------------------------------------------------
(* Part 3: the derived traversal over the built-in container shapes *)

(* A value is a tree of nodes.  Every node has the same four fields: tag is
   the Rust type (or "Struct", "Field", "Entry"), s a sequence of tokens (the
   payload of a leaf, the variant of an Option or Result, the name of a
   struct, the strategy of a field), items the ordered children and elems the
   unordered ones (the entries of a map, the elements of a set). *)
Node(tag, s, items, elems) ==
    [tag |-> tag, s |-> s, items |-> items, elems |-> elems]

\* a primitive scalar of type ty holding the literal tok
Scalar(ty, tok) == Node(ty, <<tok>>, <<>>, {})

\* a String holding the bytes b
Str(b) == Node("String", b, <<>>, {})

\* a serde_json::Value; s is its variant followed by its payload
JsonValue(s) == Node("Value", s, <<>>, {})

\* an Ipv4Addr with the four octets o
Ipv4Addr(o) == Node("Ipv4Addr", o, <<>>, {})

\* a value of a type that implements none of the redaction traits
Foreign(tok) == Node("Foreign", <<tok>>, <<>>, {})

None == Node("Option", <<"None">>, <<>>, {})

Some(x) == Node("Option", <<"Some">>, <<x>>, {})

Ok(x) == Node("Result", <<"Ok">>, <<x>>, {})

Err(x) == Node("Result", <<"Err">>, <<x>>, {})

Vec(xs) == Node("Vec", <<>>, xs, {})

\* Box, Arc, Rc, RefCell, Cell: one owned value
Ptr(kind, x) == Node(kind, <<>>, <<x>>, {})

\* one (key, value) pair of a map
Entry(k, v) == Node("Entry", <<>>, <<k, v>>, {})

\* HashMap or BTreeMap: a set of entries with pairwise different keys
Map(kind, entries) == Node(kind, <<>>, <<>>, entries)

\* HashSet or BTreeSet
SetOf(kind, es) == Node(kind, <<>>, <<>>, es)

NotSensitiveValue(x) == Node("NotSensitiveValue", <<>>, <<x>>, {})

\* a struct field: the strategy its attributes parse to, and its value
Field(strategy, x) == Node("Field", <<strategy>>, <<x>>, {})

\* a value of a struct (or of one variant of an enum) deriving Sensitive
Struct(name, fields) == Node("Struct", <<name>>, fields, {})

\* a value of an enum deriving Sensitive: the variant it is in and that
\* variant's fields (none for a unit variant)
Variant(name, variant, fields) == Node("Enum", <<name, variant>>, fields, {})

IntegerTypes ==
    {"i8", "i16", "i32", "i64", "i128", "isize",
     "u8", "u16", "u32", "u64", "u128", "usize"}

FloatTypes == {"f32", "f64"}

\* types.rs: the primitive types the derive recognises by name
is_scalar_type(ty) == ty \in IntegerTypes \cup FloatTypes \cup {"bool", "char"}

\* transform.rs: the marker that erases a scalar to its default
is_default_policy(P) == P = "Default"

\* types with the pass-through implementation of redact_with
PassthroughTypes ==
    IntegerTypes \cup FloatTypes \cup {"bool", "char", "String", "()"}

\* mapper.map_scalar: the type's default, or the mask character for a char
map_scalar(v) ==
    CASE v.tag \in IntegerTypes -> Scalar(v.tag, "0")
      [] v.tag \in FloatTypes -> Scalar(v.tag, "0.0")
      [] v.tag = "bool" -> Scalar(v.tag, "false")
      [] v.tag = "char" -> Scalar(v.tag, MASK_CHAR)

\* redact_ipv4: keep the last octet only
redact_ipv4(addr) == Ipv4Addr(<<"0", "0", "0", addr.s[4]>>)

\* the fully redacted JSON value
JsonRedacted == JsonValue(<<"String">> \o REDACTED_PLACEHOLDER)

\* what remains of a value whose type cannot be walked
Unimplemented == Node("Unimplemented", <<>>, <<>>, {})

\* collect (key, value) pairs into a map: one entry per key
MapCollect(pairs) ==
    {e \in pairs : e = CHOOSE f \in pairs : f.items[1] = e.items[1]}

\* the keys of a map
Keys(m) == {e.items[1] : e \in m.elems}

\* m[k]
Get(m, k) == (CHOOSE e \in m.elems : e.items[1] = k).items[2]

\* String under the policy marker P: rebuild from the policy's output
String_apply_policy(P, v) == Str(apply_to(RedactionPolicy(P), v.s))

RECURSIVE apply_policy(_, _)
\* PolicyApplicable::apply_policy::<P, _>: the policy at every leaf
apply_policy(P, v) ==
    CASE v.tag = "String" -> String_apply_policy(P, v)
      [] v.tag = "Value" -> JsonRedacted
      [] v.tag \in {"Option", "Vec", "Box"} ->
            Node(v.tag, v.s, [i \in 1..Len(v.items) |-> apply_policy(P, v.items[i])], {})
      [] v.tag \in {"HashMap", "BTreeMap"} ->
            Map(v.tag, MapCollect(
                {Entry(e.items[1], apply_policy(P, e.items[2])) : e \in v.elems}))
      [] OTHER -> Unimplemented

RECURSIVE redact_with(_)

\* Option<T>::redact_with: self.map(|v| v.redact_with(mapper))
Option_redact_with(v) ==
    IF v.s = <<"Some">> THEN Some(redact_with(v.items[1])) ELSE None

\* Result<T, E>::redact_with: whichever arm is present
Result_redact_with(v) ==
    IF v.s = <<"Ok">> THEN Ok(redact_with(v.items[1]))
    ELSE Err(redact_with(v.items[1]))

\* a slip: the redacted elements are collected back to front
Vec_redact_with_Reversed(v) ==
    Vec([i \in 1..Len(v.items) |-> redact_with(v.items[Len(v.items) + 1 - i])])

\* Vec<T>::redact_with: into_iter().map(redact_with).collect()
Vec_redact_with(v) ==
    Vec([i \in 1..Len(v.items) |-> redact_with(v.items[i])])

\* Box<T>::redact_with: Box::new((*self).redact_with(mapper))
Box_redact_with(v) == Ptr("Box", redact_with(v.items[1]))

\* Arc<T> / Rc<T>: a new pointer to the redaction of a clone of the pointee
Arc_redact_with(v) == Ptr(v.tag, redact_with(v.items[1]))

\* RefCell<T> / Cell<T>: take the value out, redact it, wrap it again
Cell_redact_with(v) == Ptr(v.tag, redact_with(v.items[1]))

\* a slip in the closure: the key is redacted as well
Map_redact_with_RedactsKeys(v) ==
    Map(v.tag, MapCollect(
        {Entry(redact_with(e.items[1]), redact_with(e.items[2])) : e \in v.elems}))

\* HashMap / BTreeMap: (k, v) becomes (k, v.redact_with(mapper))
Map_redact_with(v) ==
    Map(v.tag, MapCollect(
        {Entry(e.items[1], redact_with(e.items[2])) : e \in v.elems}))

\* a slip: the set is handed back as it came, its elements not redacted
Set_redact_with_Passthrough(v) == v

\* HashSet / BTreeSet: redact every element and collect into a set again
Set_redact_with(v) == SetOf(v.tag, {redact_with(e) : e \in v.elems})

\* the field's transform for #[not_sensitive]: none
NotSensitiveTransform(v) == v

\* a slip in the unannotated arm: a scalar is erased as if it were sensitive
WalkDefault_transform_EraseScalar(binding) ==
    IF is_scalar_type(binding.tag) THEN map_scalar(binding) ELSE redact_with(binding)

\* Strategy::WalkDefault: a scalar is left alone, anything else is walked
WalkDefault_transform(binding) ==
    IF is_scalar_type(binding.tag) THEN binding ELSE redact_with(binding)

\* a slip in the scalar arm: the erasure step is not emitted
Classify_transform_ScalarKept(policy_path, binding) ==
    IF is_scalar_type(binding.tag) THEN binding
    ELSE IF policy_path = "Error" THEN redact_with(binding)
    ELSE apply_policy(policy_path, binding)

\* a slip in the last arm: the field is walked, the policy is not applied
Classify_transform_WalksPolicy(policy_path, binding) ==
    IF is_scalar_type(binding.tag)
    THEN IF is_default_policy(policy_path) THEN map_scalar(binding)
         ELSE Unimplemented
    ELSE redact_with(binding)

\* Strategy::Classify(policy_path): erase a scalar, walk under Error, apply
\* the policy to anything else
Classify_transform(policy_path, binding) ==
    IF is_scalar_type(binding.tag)
    THEN IF is_default_policy(policy_path) THEN map_scalar(binding)
         ELSE Unimplemented
    ELSE IF policy_path = "Error" THEN redact_with(binding)
    ELSE apply_policy(policy_path, binding)

\* a slip in the dispatch: a #[not_sensitive] field is walked like an
\* unannotated one
field_transform_WalksNotSensitive(f) ==
    LET strategy == f.s[1]
        binding == f.items[1]
    IN  CASE strategy \in {"WalkDefault", "NotSensitive"} -> WalkDefault_transform(binding)
          [] OTHER -> Classify_transform(strategy, binding)

\* generate_field_transform: the statement emitted for one field
field_transform(f) ==
    LET strategy == f.s[1]
        binding == f.items[1]
    IN  CASE strategy = "WalkDefault" -> WalkDefault_transform(binding)
          [] strategy = "NotSensitive" -> NotSensitiveTransform(binding)
          [] OTHER -> Classify_transform(strategy, binding)

\* a rebuild that puts the transformed bindings back in the reverse order
Struct_redact_with_Reversed(v) ==
    Node("Struct", v.s,
         [i \in 1..Len(v.items) |->
            Field(v.items[i].s[1],
                  field_transform(v.items[Len(v.items) + 1 - i]))], {})

\* the derived redact_with of a struct: rebuild it from the transformed fields
\* (a unit struct has no field and its body is self)
Struct_redact_with(v) ==
    Node("Struct", v.s,
         [i \in 1..Len(v.items) |->
            Field(v.items[i].s[1], field_transform(v.items[i]))], {})

\* the derived redact_with of an enum: a match on self whose arm rebuilds the
\* matched variant from its transformed fields
Enum_redact_with(v) ==
    Node("Enum", v.s,
         [i \in 1..Len(v.items) |->
            Field(v.items[i].s[1], field_transform(v.items[i]))], {})

\* RedactableContainer::redact_with, by the type of the value
redact_with(v) ==
    CASE v.tag \in PassthroughTypes -> v
      [] v.tag = "NotSensitiveValue" -> v
      [] v.tag = "Value" -> JsonRedacted
      [] v.tag = "Ipv4Addr" -> redact_ipv4(v)
      [] v.tag = "Option" -> Option_redact_with(v)
      [] v.tag = "Result" -> Result_redact_with(v)
      [] v.tag = "Vec" -> Vec_redact_with(v)
      [] v.tag = "Box" -> Box_redact_with(v)
      [] v.tag \in {"Arc", "Rc"} -> Arc_redact_with(v)
      [] v.tag \in {"RefCell", "Cell"} -> Cell_redact_with(v)
      [] v.tag \in {"HashMap", "BTreeMap"} -> Map_redact_with(v)
      [] v.tag \in {"HashSet", "BTreeSet"} -> Set_redact_with(v)
      [] v.tag = "Struct" -> Struct_redact_with(v)
      [] v.tag = "Enum" -> Enum_redact_with(v)
      [] OTHER -> Unimplemented

\* Redactable::redact: redact_with under the default mapper
redact(v) == redact_with(v)

\* generate_field_transform returns Err: a policy other than Default on a scalar
field_plan_error(f) ==
    /\ f.s[1] \notin {"WalkDefault", "NotSensitive"}
    /\ is_scalar_type(f.items[1].tag)
    /\ ~is_default_policy(f.s[1])

\* derive_named_struct: every field's transform is generated, or the derive fails
derive_struct(v) == \A i \in 1..Len(v.items) : ~field_plan_error(v.items[i])

-----------------------------------------------------------------------------
(* The values the traversal is run on *)

\* redact() has not run
WalkNotRun == Node("NotRun", <<>>, <<>>, {})

LeafStrings == {<<>>, <<"a", "a", "@", "a">>, <<"CC", "81", "a", "a", "a">>}

ScalarValues ==
    {Scalar("i32", "7"), Scalar("i32", "0"), Scalar("i64", "-3"),
     Scalar("u8", "255"), Scalar("usize", "1"),
     Scalar("f32", "0.0"), Scalar("f64", "1.5"),
     Scalar("bool", "true"), Scalar("bool", "false"),
     Scalar("char", "a"), Scalar("char", "*")}

\* struct SensitiveString { #[sensitive(Default)] value: String }
SensitiveString(b) == Struct("SensitiveString", <<Field("Default", Str(b))>>)

\* struct Plain { name: String, count: i32 }: no annotation
Plain(b, n) ==
    Struct("Plain", <<Field("WalkDefault", Str(b)), Field("WalkDefault", Scalar("i32", n))>>)

\* the keys maps are built over
MapKeys == {Str(<<"a">>), SensitiveString(<<"a", "a">>)}

\* every container shape, one layer deep, over the elements E
Wrap(E) ==
    {None} \cup {Some(x) : x \in E} \cup {Ok(x) : x \in E} \cup {Err(x) : x \in E}
    \cup {Vec(xs) : xs \in UNION {[1..n -> E] : n \in 0..MaxItems}}
    \cup {Ptr(k, x) : k \in {"Box", "Arc", "Rc", "RefCell", "Cell"}, x \in E}
    \cup {Map(k, {Entry(key, m[key]) : key \in D}) :
            k \in {"HashMap", "BTreeMap"},
            m \in [MapKeys -> E], D \in SUBSET MapKeys}
    \cup {SetOf(k, S) : k \in {"HashSet", "BTreeSet"},
            S \in {T \in SUBSET E : Cardinality(T) <= MaxItems}}

\* leaves and structs with no sensitive field
PlainElems ==
    {Str(b) : b \in LeafStrings}
    \cup {Scalar("i32", "7"), Scalar("bool", "true"), Scalar("char", "a")}
    \cup {Plain(<<"a">>, "7")}

\* leaves that redact wherever they are walked, and structs with sensitive fields
SensitiveElems ==
    {JsonValue(<<"Null">>), JsonValue(<<"String", "a">>),
     Ipv4Addr(<<"192", "168", "1", "100">>)}
    \cup {SensitiveString(b) : b \in LeafStrings}

\* the elements of the two-layer values
InnerElems == {Str(<<"a", "a", "@", "a">>), SensitiveString(<<"a">>), JsonValue(<<"Null">>)}

\* one more single-element layer around the values W
Rewrap(W) ==
    {Some(x) : x \in W} \cup {Vec(<<x>>) : x \in W}
    \cup {Ptr(k, x) : k \in {"Box", "Arc", "RefCell"}, x \in W}
    \cup {Map("HashMap", {Entry(Str(<<"a">>), x)}) : x \in W}

\* what an unannotated field can hold
WalkValues ==
    PlainElems \cup SensitiveElems
    \cup Wrap(PlainElems \cup SensitiveElems)
    \cup Rewrap(Wrap(InnerElems))

\* the container shapes a policy is applied through, over the elements E
PolicyWrap(E) ==
    {None} \cup {Some(x) : x \in E}
    \cup {Vec(xs) : xs \in UNION {[1..n -> E] : n \in 0..MaxItems}}
    \cup {Ptr("Box", x) : x \in E}
    \cup {Map(k, {Entry(key, m[key]) : key \in D}) :
            k \in {"HashMap", "BTreeMap"},
            m \in [MapKeys -> E], D \in SUBSET MapKeys}

\* what a field under a policy marker can hold
PolicyValues ==
    {Str(b) : b \in LeafStrings}
    \cup PolicyWrap({Str(b) : b \in LeafStrings})
    \cup Rewrap(PolicyWrap({Str(<<"a", "a", "@", "a">>), Str(<<>>)}))

\* what a #[not_sensitive] field can hold
NotSensitiveValues ==
    {Foreign("x"), SensitiveString(<<"a">>), JsonValue(<<"Null">>),
     Ipv4Addr(<<"192", "168", "1", "100">>),
     Some(SensitiveString(<<"a">>)), Vec(<<Foreign("x"), Foreign("y")>>)}
    \cup ScalarValues

\* the fields of the records
WalkFields ==
    {Field(st, x) : st \in {"WalkDefault", "Default", "Token"}, x \in ScalarValues}
    \cup {Field("WalkDefault", x) : x \in WalkValues}
    \cup {Field("Error", x) : x \in Wrap(InnerElems)}
    \cup {Field(P, x) : P \in {"Default", "Token", "Email", "Pii"}, x \in PolicyValues}
    \cup {Field("NotSensitive", x) : x \in NotSensitiveValues}
    \cup {Field("WalkDefault", NotSensitiveValue(x)) : x \in NotSensitiveValues}

\* a second field next to the first
SecondFields ==
    {Field("WalkDefault", Scalar("i32", "7")), Field("Default", Str(<<"a">>))}

\* the variants of enum Auth { ApiKey(Token String), Basic(Default String,
\* String), None }
AuthValues ==
    {Variant("Auth", "ApiKey", <<Field("Token", Str(b))>>) : b \in LeafStrings}
    \cup {Variant("Auth", "Basic",
                  <<Field("Default", Str(b)), Field("WalkDefault", Str(c))>>) :
             b \in LeafStrings, c \in LeafStrings}
    \cup {Variant("Auth", "None", <<>>)}

Records ==
    {Struct("Record", <<f>>) : f \in WalkFields}
    \cup {Struct("Record", <<f, g>>) : f \in WalkFields, g \in SecondFields}
    \cup {Struct("Unit", <<>>)}
    \cup AuthValues

InitWalk ==
    /\ TextIdle
    /\ JsonIdle
    /\ ArcIdle
    /\ StackIdle
    /\ PlanIdle
    /\ NsIdle
    /\ GenIdle
    /\ ModeIdle
    /\ TplIdle
    /\ wval \in Records
    /\ wout = WalkNotRun
    /\ wpc = "planned"

\* the derive accepted the struct: value.redact()
WalkRedact ==
    /\ wpc = "planned"
    /\ derive_struct(wval)
    /\ wout' = redact(wval)
    /\ wpc' = "redacted"
    /\ UNCHANGED <<wval, notWalkVars>>

\* the derive rejected the struct: there is no redact() to call
WalkReject ==
    /\ wpc = "planned"
    /\ ~derive_struct(wval)
    /\ wpc' = "rejected"
    /\ UNCHANGED <<wval, wout, notWalkVars>>

NextWalk == WalkRedact \/ WalkReject

SpecWalk == InitWalk /\ [][NextWalk]_vars

-----------------------------------------------------------------------------
(* Claims about the traversal *)

\* redact() has run on the record
Redacted == wpc = "redacted"

\* field i of the input record and of the output record
InField(i) == wval.items[i]

OutField(i) == wout.items[i].items[1]

ZeroOf(ty) ==
    CASE ty \in IntegerTypes -> "0"
      [] ty \in FloatTypes -> "0.0"
      [] ty = "bool" -> "false"
      [] ty = "char" -> "*"

\* C11: a scalar field under the erase-to-default marker comes out as 0 for the
\* integer types, 0.0 for the float types, false for bool and '*' for char,
\* whatever it held.
C11_ScalarErasedToDefault ==
    Redacted =>
        \A i \in 1..Len(wval.items) :
            (InField(i).s[1] = "Default" /\ is_scalar_type(InField(i).items[1].tag))
                => OutField(i) = Scalar(InField(i).items[1].tag, ZeroOf(InField(i).items[1].tag))

C11_Witness ==
    /\ Redacted
    /\ InField(1) = Field("Default", Scalar("f64", "1.5"))
    /\ OutField(1) = Scalar("f64", "0.0")

\* the children of a node, ordered and unordered
Children(v) == {v.items[i] : i \in 1..Len(v.items)} \cup v.elems

RECURSIVE Annotated(_)
\* some field of v, at any depth, carries #[sensitive(..)] or #[not_sensitive]
Annotated(v) ==
    \/ v.tag = "Field" /\ v.s[1] # "WalkDefault"
    \/ \E c \in Children(v) : Annotated(c)

RECURSIVE HoldsRedactingLeaf(_)
\* v holds, at any depth, a leaf whose own redact_with rewrites it
HoldsRedactingLeaf(v) ==
    \/ v.tag \in {"Value", "Ipv4Addr"}
    \/ \E c \in Children(v) : HoldsRedactingLeaf(c)

C13_PassthroughUnchanged ==
    Redacted =>
        \A i \in 1..Len(wval.items) :
            (\/ InField(i).s[1] = "NotSensitive"
             \/ InField(i).items[1].tag = "NotSensitiveValue")
                => OutField(i) = InField(i).items[1]

C13_Witness ==
    /\ Redacted
    /\ Len(wval.items) = 2
    /\ InField(1) = Field("NotSensitive", SensitiveString(<<"a">>))
    /\ OutField(1) = SensitiveString(<<"a">>)
    /\ InField(2) = Field("Default", Str(<<"a">>))
    /\ OutField(2) = Str(REDACTED_PLACEHOLDER)

RECURSIVE SameShapeLeavesApplied(_, _, _)
\* out has the container shape of in, and each String leaf of out is the
\* policy of the marker P applied to the leaf of in at the same place
SameShapeLeavesApplied(P, in, out) ==
    /\ out.tag = in.tag
    /\ CASE in.tag = "String" -> out = Str(apply_to(RedactionPolicy(P), in.s))
         [] in.tag \in {"Option", "Vec", "Box"} ->
                /\ out.s = in.s
                /\ Len(out.items) = Len(in.items)
                /\ \A i \in 1..Len(in.items) :
                        SameShapeLeavesApplied(P, in.items[i], out.items[i])
         [] in.tag \in {"HashMap", "BTreeMap"} ->
                /\ Keys(out) = Keys(in)
                /\ Cardinality(out.elems) = Cardinality(in.elems)
                /\ \A k \in Keys(in) :
                        SameShapeLeavesApplied(P, Get(in, k), Get(out, k))
         [] OTHER -> FALSE

RECURSIVE StringNest(_)
\* optionals, lists, boxes and map values nested around String leaves
StringNest(v) ==
    \/ v.tag = "String"
    \/ /\ v.tag \in {"Option", "Vec", "Box"}
       /\ \A i \in 1..Len(v.items) : StringNest(v.items[i])
    \/ /\ v.tag \in {"HashMap", "BTreeMap"}
       /\ \A e \in v.elems : StringNest(e.items[2])

TextMarkers == {"Default", "Token", "Email", "Pii"}

WalkedFields(T) ==
    {i \in 1..Len(wval.items) :
        InField(i).s[1] = "WalkDefault" /\ InField(i).items[1].tag \in T}

\* C15: for a HashMap or BTreeMap m, redact(m) has exactly the keys of m and
\* redact(m)[k] = redact(m[k]) for every key k; a key is never transformed,
\* even one of a type that redaction would change as a value.
C15_MapValuesOnly ==
    Redacted =>
        \A i \in WalkedFields({"HashMap", "BTreeMap"}) :
            LET m == InField(i).items[1]
                r == OutField(i)
            IN  /\ r.tag = m.tag
                /\ Keys(r) = Keys(m)
                /\ Cardinality(r.elems) = Cardinality(m.elems)
                /\ \A k \in Keys(m) : Get(r, k) = redact(Get(m, k))

C15_Witness ==
    /\ Redacted
    /\ InField(1).items[1] = Map("HashMap",
            {Entry(Str(<<"a">>), SensitiveString(<<>>)),
             Entry(SensitiveString(<<"a", "a">>), SensitiveString(<<"a", "a", "@", "a">>))})
    /\ OutField(1) = Map("HashMap",
            {Entry(Str(<<"a">>), SensitiveString(REDACTED_PLACEHOLDER)),
             Entry(SensitiveString(<<"a", "a">>), SensitiveString(REDACTED_PLACEHOLDER))})

\* C16: for a HashSet or BTreeSet s, redact(s) is the set of the redactions of
\* the elements of s; it has at most as many elements as s, and fewer only when
\* two different elements of s redact to the same value.
C16_SetOfRedactions ==
    Redacted =>
        \A i \in WalkedFields({"HashSet", "BTreeSet"}) :
            LET s == InField(i).items[1]
                r == OutField(i)
            IN  /\ r.tag = s.tag
                /\ r.elems = {redact(e) : e \in s.elems}
                /\ Cardinality(r.elems) <= Cardinality(s.elems)
                /\ Cardinality(r.elems) < Cardinality(s.elems) =>
                        \E a, b \in s.elems : a # b /\ redact(a) = redact(b)

C16_Witness ==
    /\ Redacted
    /\ InField(1).items[1] = SetOf("BTreeSet",
            {SensitiveString(<<>>), SensitiveString(<<"a", "a", "@", "a">>)})
    /\ OutField(1) = SetOf("BTreeSet", {SensitiveString(REDACTED_PLACEHOLDER)})

\* C17: redaction keeps the shape of an Option, a Result and a Vec: None stays
\* None and Some stays Some, Ok stays Ok and Err stays Err, and a Vec keeps its
\* length with element i of the result the redaction of element i of the input.
C17_ShapePreserved ==
    Redacted =>
        /\ \A i \in WalkedFields({"Option", "Result"}) :
                LET o == InField(i).items[1]
                    r == OutField(i)
                IN  /\ r.tag = o.tag
                    /\ r.s = o.s
                    /\ Len(r.items) = Len(o.items)
                    /\ \A j \in 1..Len(o.items) : r.items[j] = redact(o.items[j])
        /\ \A i \in WalkedFields({"Vec"}) :
                LET xs == InField(i).items[1]
                    r == OutField(i)
                IN  /\ r.tag = "Vec"
                    /\ Len(r.items) = Len(xs.items)
                    /\ \A j \in 1..Len(xs.items) : r.items[j] = redact(xs.items[j])

C17_Witness ==
    /\ Redacted
    /\ InField(1).items[1] = Vec(<<Str(<<"a", "a", "@", "a">>), SensitiveString(<<>>)>>)
    /\ OutField(1) = Vec(<<Str(<<"a", "a", "@", "a">>), SensitiveString(REDACTED_PLACEHOLDER)>>)

\* C29: redaction of a struct or of an enum variant is field-wise: the result
\* is the same struct, or the same variant of the same enum, with as many
\* fields, and field i of the result is the transform prescribed by the strategy
\* of field i applied to field i of the input, whatever the other fields hold
\* and whatever their strategies are; a value without fields redacts to itself.
C29_FieldWise ==
    Redacted =>
        /\ wout.tag = wval.tag
        /\ wout.s = wval.s
        /\ Len(wout.items) = Len(wval.items)
        /\ \A i \in 1..Len(wval.items) :
                /\ wout.items[i].s = InField(i).s
                /\ OutField(i) = field_transform(InField(i))
                /\ OutField(i) = redact(Struct("Alone", <<InField(i)>>)).items[1].items[1]
        /\ (Len(wval.items) = 0 => wout = wval)

\* a two-field record is redacted: its first field is changed by its own
\* strategy and its second field, under another strategy, is not
C29_Witness ==
    /\ Redacted
    /\ Len(wval.items) = 2
    /\ InField(1).s # InField(2).s
    /\ OutField(1) # InField(1).items[1]
    /\ OutField(2) = InField(2).items[1]

-----------------------------------------------------------------------------
(* Part 4: Arc<T> / Rc<T> on a heap shared by several holders *)

\* the addresses of the heap: the shared allocation and one more per holder
Addrs == 1..(MaxHolders + 1)

Holders == 1..MaxHolders

\* where the shared allocation lives
OrigAddr == 1

\* a freed or never used cell
FreeCell == [live |-> FALSE, val |-> WalkNotRun, count |-> 0]

\* a holder that does not exist in this run
AbsentHolder == [pc |-> "absent", ptr |-> 0, dup |-> WalkNotRun, new |-> 0]

\* the pointees T: RedactableContainer + Clone
ArcPointees ==
    {SensitiveString(<<"a", "a", "@", "a">>), Plain(<<"a">>, "7"),
     Vec(<<JsonValue(<<"Null">>), JsonValue(<<"String", "a">>)>>), Str(<<"a">>)}

\* a slip: the pointee is redacted where it lies and the same pointer returned
Arc_new_redacted_InPlace(hp, p, dup, a) ==
    [heap |-> [hp EXCEPT ![p].val = redact_with(dup)], ptr |-> p]

\* Arc::new(dup.redact_with(mapper)): the redaction of the duplicate goes to
\* the free address a; the allocation p self points to is not written
Arc_new_redacted(hp, p, dup, a) ==
    [heap |-> [hp EXCEPT ![a] = [live |-> TRUE, val |-> redact_with(dup), count |-> 1]],
     ptr |-> a]

\* drop(self): one owner less of p; the last owner frees the allocation
Arc_drop(hp, p) ==
    IF hp[p].count = 1 THEN [hp EXCEPT ![p] = FreeCell]
    ELSE [hp EXCEPT ![p].count = hp[p].count - 1]

\* n holders of one allocation
InitArc ==
    /\ TextIdle
    /\ JsonIdle
    /\ WalkIdle
    /\ StackIdle
    /\ PlanIdle
    /\ NsIdle
    /\ GenIdle
    /\ ModeIdle
    /\ TplIdle
    /\ orig \in ArcPointees
    /\ \E n \in Holders :
        /\ heap = [a \in Addrs |->
                    IF a = OrigAddr THEN [live |-> TRUE, val |-> orig, count |-> n]
                    ELSE FreeCell]
        /\ holder = [h \in Holders |->
                    IF h <= n
                    THEN [pc |-> "holding", ptr |-> OrigAddr, dup |-> WalkNotRun, new |-> 0]
                    ELSE AbsentHolder]

\* (*self).clone(): holder h reads the pointee and duplicates it
Duplicate(h) ==
    /\ holder[h].pc = "holding"
    /\ holder' = [holder EXCEPT ![h].pc = "duplicated",
                                ![h].dup = heap[holder[h].ptr].val]
    /\ UNCHANGED <<heap, orig, notArcVars>>

\* Arc::new(dup.redact_with(mapper)): holder h redacts its duplicate and
\* allocates the result
Allocate(h) ==
    /\ holder[h].pc = "duplicated"
    /\ \E a \in Addrs :
        /\ ~heap[a].live
        /\ LET r == Arc_new_redacted(heap, holder[h].ptr, holder[h].dup, a)
           IN  /\ heap' = r.heap
               /\ holder' = [holder EXCEPT ![h].pc = "allocated", ![h].new = r.ptr]
    /\ UNCHANGED <<orig, notArcVars>>

\* the end of redact_with: self is dropped and the new pointer returned
Return(h) ==
    /\ holder[h].pc = "allocated"
    /\ heap' = Arc_drop(heap, holder[h].ptr)
    /\ holder' = [holder EXCEPT ![h].pc = "done", ![h].ptr = holder[h].new]
    /\ UNCHANGED <<orig, notArcVars>>

NextArc ==
    \/ \E h \in Holders : Duplicate(h)
    \/ \E h \in Holders : Allocate(h)
    \/ \E h \in Holders : Return(h)

SpecArc == InitArc /\ [][NextArc]_vars

\* the holders that are still to return from redact_with
Unredacted == {h \in Holders : holder[h].pc \in {"holding", "duplicated", "allocated"}}

RedactedHolders == {h \in Holders : holder[h].pc = "done"}

\* C18: whatever the number of holders and the interleaving of their
\* redactions, a holder that has not been redacted still sees the original
\* pointee, and a redacted holder has an allocation of its own, different from
\* the shared one, that holds the redaction of the original; also with one owner.
C18_SharedPointeeUntouched ==
    /\ \A h \in Unredacted :
            /\ holder[h].ptr = OrigAddr
            /\ heap[OrigAddr].live
            /\ heap[OrigAddr].val = orig
    /\ \A h \in RedactedHolders :
            /\ holder[h].ptr # OrigAddr
            /\ heap[holder[h].ptr].live
            /\ heap[holder[h].ptr].count = 1
            /\ heap[holder[h].ptr].val = redact(orig)
            /\ \A g \in Holders \ {h} : holder[g].ptr # holder[h].ptr

C18_Witness ==
    /\ orig = SensitiveString(<<"a", "a", "@", "a">>)
    /\ holder[1].pc = "done"
    /\ holder[2].pc = "duplicated"
    /\ holder[3].pc = "holding"
    /\ heap[holder[1].ptr].val = SensitiveString(REDACTED_PLACEHOLDER)
    /\ heap[holder[3].ptr].val = orig

-----------------------------------------------------------------------------
(* Part 5: redact_with as the machine runs it, one call frame per nested call *)

\* the types whose redact_with returns without calling redact_with again
LeafTypes == PassthroughTypes \cup {"Value", "Ipv4Addr", "NotSensitiveValue"}

OrderedTypes == {"Option", "Result", "Vec", "Box", "Arc", "Rc", "RefCell", "Cell"}

MapTypes == {"HashMap", "BTreeMap"}

SetTypes == {"HashSet", "BTreeSet"}

\* the frame of a call v.redact_with(mapper): acc holds the redacted children
\* of an ordered container so far, rest the entries or elements still to visit,
\* out the redacted ones, cur the entry or element being visited
Frame(v) ==
    [v |-> v, acc |-> <<>>,
     rest |-> IF v.tag \in MapTypes \cup SetTypes THEN v.elems ELSE {},
     out |-> {}, cur |-> WalkNotRun]

\* what the iterator of the frame can yield next
Pending(f) ==
    CASE f.v.tag \in OrderedTypes ->
            IF Len(f.acc) < Len(f.v.items) THEN {f.v.items[Len(f.acc) + 1]} ELSE {}
      [] f.v.tag \in MapTypes \cup SetTypes -> f.rest
      [] OTHER -> {}

\* a slip in Arc / Rc: self.clone() instead of (*self).clone(), so the call is
\* made on the pointer again and not on a duplicate of the pointee
Callee_ArcSelf(f, c) ==
    IF f.v.tag \in {"Arc", "Rc"} THEN f.v
    ELSE IF f.v.tag \in MapTypes THEN c.items[2] ELSE c

\* the value the frame calls redact_with on for the yielded c: the value of a
\* map entry, the element or pointee otherwise
Callee(f, c) == IF f.v.tag \in MapTypes THEN c.items[2] ELSE c

\* the frame after the call made for f.cur returned r
Deliver(f, r) ==
    CASE f.v.tag \in OrderedTypes -> [f EXCEPT !.acc = Append(f.acc, r), !.cur = WalkNotRun]
      [] f.v.tag \in MapTypes ->
            [f EXCEPT !.out = f.out \cup {Entry(f.cur.items[1], r)},
                      !.rest = f.rest \ {f.cur}, !.cur = WalkNotRun]
      [] f.v.tag \in SetTypes ->
            [f EXCEPT !.out = f.out \cup {r}, !.rest = f.rest \ {f.cur}, !.cur = WalkNotRun]

\* what the call of the frame returns once nothing is pending
Returned(f) ==
    CASE f.v.tag = "Value" -> JsonRedacted
      [] f.v.tag = "Ipv4Addr" -> redact_ipv4(f.v)
      [] f.v.tag \in OrderedTypes -> Node(f.v.tag, f.v.s, f.acc, {})
      [] f.v.tag \in MapTypes \cup SetTypes -> Node(f.v.tag, f.v.s, <<>>, f.out)
      [] OTHER -> f.v

\* the leaves of the values the machine is run on
StackLeaves ==
    {Str(<<"a">>), Scalar("u32", "42"), JsonValue(<<"Null">>),
     Ipv4Addr(<<"192", "168", "1", "100">>)}

\* values nested one to four containers deep
StackValues ==
    StackLeaves
    \cup Wrap(StackLeaves)
    \cup Rewrap(Wrap({Str(<<"a">>), JsonValue(<<"Null">>)}))
    \cup Rewrap(Rewrap(Wrap({JsonValue(<<"Null">>)})))
    \cup Rewrap(Rewrap(Rewrap({None, Vec(<<JsonValue(<<"Null">>), Str(<<"a">>)>>)})))

\* value.redact(): the outermost call is on the stack
InitStack ==
    /\ TextIdle
    /\ JsonIdle
    /\ WalkIdle
    /\ ArcIdle
    /\ PlanIdle
    /\ NsIdle
    /\ GenIdle
    /\ ModeIdle
    /\ TplIdle
    /\ sval \in StackValues
    /\ stack = <<Frame(sval)>>
    /\ sresult = WalkNotRun
    /\ smax = 1
    /\ spc = "running"

\* the innermost call takes the next element from its iterator and calls
\* redact_with on it
Enter ==
    /\ spc = "running"
    /\ Len(stack) < StackLimit
    /\ LET f == stack[Len(stack)]
       IN  \E c \in Pending(f) :
            /\ stack' = Append([stack EXCEPT ![Len(stack)].cur = c], Frame(Callee(f, c)))
            /\ smax' = IF Len(stack) + 1 > smax THEN Len(stack) + 1 ELSE smax
    /\ UNCHANGED <<sval, sresult, spc, notStackVars>>

\* the innermost call has nothing left to visit: it returns to its caller
Leave ==
    /\ spc = "running"
    /\ LET f == stack[Len(stack)]
           r == Returned(f)
       IN  /\ Pending(f) = {}
           /\ IF Len(stack) = 1
              THEN /\ stack' = <<>>
                   /\ sresult' = r
                   /\ spc' = "done"
              ELSE /\ stack' = [SubSeq(stack, 1, Len(stack) - 1)
                                    EXCEPT ![Len(stack) - 1] = Deliver(stack[Len(stack) - 1], r)]
                   /\ UNCHANGED <<sresult, spc>>
    /\ UNCHANGED <<sval, smax, notStackVars>>

NextStack == Enter \/ Leave

SpecStack == InitStack /\ [][NextStack]_vars

\* one thread runs the call to its end
SpecStackLive == SpecStack /\ WF_vars(NextStack)

RECURSIVE Depth(_)
\* the nesting depth of a value: a leaf is 1, a container one more than its
\* deepest element (of a map: its deepest value)
Depth(v) ==
    LET inner == IF v.tag \in MapTypes THEN {e.items[2] : e \in v.elems}
                 ELSE IF v.tag \in LeafTypes THEN {}
                 ELSE Children(v)
        depths == {Depth(c) : c \in inner}
    IN  IF inner = {} THEN 1
        ELSE 1 + CHOOSE d \in depths : \A e \in depths : e <= d

\* C19: redact ends with a result on every value built from the container
\* shapes, Arc, Rc, RefCell and Cell included, and the calls never nest deeper
\* than the value does, however many elements a container has.
C19_TerminatesWithinDepth ==
    /\ [](spc = "running" => Len(stack) <= Depth(sval))
    /\ <>(spc = "done" /\ sresult = redact(sval))

C19_Witness ==
    /\ spc = "done"
    /\ sval = Ptr("Arc", Ptr("RefCell", Some(Vec(<<JsonValue(<<"Null">>), Str(<<"a">>)>>))))
    /\ sresult = Ptr("Arc", Ptr("RefCell", Some(Vec(<<JsonRedacted, Str(<<"a">>)>>))))
    /\ smax = 5

-----------------------------------------------------------------------------
(* Part 6: the derive at work on the attributes of the fields of a struct *)

\* an attribute: its path, the form of its meta and the tokens of a list
Attr(path, meta, tokens) == [path |-> path, meta |-> meta, tokens |-> tokens]

\* the attributes a field is given here
Attributes ==
    {Attr("sensitive", "List", "Default"), Attr("sensitive", "List", "Token"),
     Attr("not_sensitive", "Path", ""), Attr("serde", "List", "skip"),
     Attr("sensitive", "Path", ""), Attr("not_sensitive", "List", "foo")}

\* the token streams that parse as a path
PolicyPaths == {"Default", "Token", "Email", "Pii", "Error"}

\* the outcome of parsing: a strategy, or an error and the attribute it is at
ParseOk(strategy) == [ok |-> TRUE, strategy |-> strategy, msg |-> "", at |-> 0]

ParseErr(msg, at) == [ok |-> FALSE, strategy |-> "", msg |-> msg, at |-> at]

\* strategy: Option<Strategy> with nothing set yet
Unset == "None"

\* a slip: a later annotation silently replaces the earlier one
set_strategy_Overwrite(target, next, at) == ParseOk(next)

\* set_strategy: an error if a strategy is set already
set_strategy(target, next, at) ==
    IF target # Unset
    THEN ParseErr("multiple #[sensitive] or #[not_sensitive] attributes on the same field", at)
    ELSE ParseOk(next)

RECURSIVE parse_from(_, _, _)
\* the loop of parse_field_strategy from attribute i on, strategy so far
parse_from(attrs, i, strategy) ==
    IF i > Len(attrs)
    THEN ParseOk(IF strategy = Unset THEN "WalkDefault" ELSE strategy)
    ELSE LET attr == attrs[i]
         IN  IF attr.path = "not_sensitive"
             THEN IF attr.meta = "Path"
                  THEN LET r == set_strategy(strategy, "NotSensitive", i)
                       IN  IF r.ok THEN parse_from(attrs, i + 1, r.strategy) ELSE r
                  ELSE ParseErr("#[not_sensitive] does not take arguments", i)
             ELSE IF attr.path # "sensitive"
             THEN parse_from(attrs, i + 1, strategy)
             ELSE CASE attr.meta = "Path" -> ParseErr("missing policy", i)
                    [] attr.meta = "List" ->
                        IF attr.tokens \in PolicyPaths
                        THEN LET r == set_strategy(strategy, attr.tokens, i)
                             IN  IF r.ok THEN parse_from(attrs, i + 1, r.strategy) ELSE r
                        ELSE ParseErr("expected a policy type", i)
                    [] OTHER -> ParseErr("expected #[sensitive(Policy)] syntax", i)

parse_field_strategy(attrs) == parse_from(attrs, 1, Unset)

\* a field of the struct: its attributes and its type
PlanField(attrs, ty) == [attrs |-> attrs, ty |-> ty]

AttrLists == UNION {[1..n -> Attributes] : n \in 0..MaxAttrs}

\* the first field of the struct: plain, a scalar under a text policy, doubly
\* annotated, or annotated once among other attributes
FirstFields ==
    {PlanField(<<>>, "String"),
     PlanField(<<Attr("sensitive", "List", "Token")>>, "i32"),
     PlanField(<<Attr("sensitive", "List", "Default")>>, "i32"),
     PlanField(<<Attr("not_sensitive", "Path", ""), Attr("sensitive", "List", "Token")>>, "String"),
     PlanField(<<Attr("serde", "List", "skip"), Attr("sensitive", "List", "Token")>>, "String")}

Schemas ==
    {<<f>> : f \in FirstFields}
    \cup {<<f, PlanField(attrs, ty)>> :
            f \in FirstFields, attrs \in AttrLists, ty \in {"String", "i32"}}

\* what each derive emits for a struct it accepts
Emitted(mode) ==
    IF mode = "Sensitive" THEN {"RedactableContainer", "Debug"}
    ELSE {"RedactableDisplay", "Debug"}

NoError == [field |-> 0, msg |-> ""]

\* the outcome of planning field f under the derive mode: the parse, then for
\* derive(Sensitive) the transform
plan_field(f, mode) ==
    LET r == parse_field_strategy(f.attrs)
    IN  IF ~r.ok THEN r
        ELSE IF mode = "Sensitive"
                /\ field_plan_error(Field(r.strategy, Node(f.ty, <<>>, <<>>, {})))
        THEN ParseErr("scalar fields can only use #[sensitive(Default)]", 0)
        ELSE r

InitPlan ==
    /\ TextIdle
    /\ JsonIdle
    /\ WalkIdle
    /\ ArcIdle
    /\ StackIdle
    /\ NsIdle
    /\ GenIdle
    /\ ModeIdle
    /\ TplIdle
    /\ pschema \in Schemas
    /\ pmode \in {"Sensitive", "SensitiveDisplay"}
    /\ pidx = 1
    /\ perr = NoError
    /\ pemitted = {}
    /\ ppc = "planning"

\* one turn of the loop over the fields: the first error ends the derive,
\* which then emits the error and nothing else
PlanNextField ==
    /\ ppc = "planning"
    /\ pidx <= Len(pschema)
    /\ LET r == plan_field(pschema[pidx], pmode)
       IN  IF r.ok
           THEN /\ pidx' = pidx + 1
                /\ UNCHANGED <<perr, ppc>>
           ELSE /\ perr' = [field |-> pidx, msg |-> r.msg]
                /\ ppc' = "error"
                /\ UNCHANGED pidx
    /\ UNCHANGED <<pschema, pmode, pemitted, notPlanVars>>

\* every field is planned: the implementations are emitted
Emit ==
    /\ ppc = "planning"
    /\ pidx > Len(pschema)
    /\ pemitted' = Emitted(pmode)
    /\ ppc' = "emitted"
    /\ UNCHANGED <<pschema, pmode, pidx, perr, notPlanVars>>

\* the program compiles and calls redact() or redacted_display() on a value
Call ==
    /\ ppc = "emitted"
    /\ pemitted \cap {"RedactableContainer", "RedactableDisplay"} # {}
    /\ ppc' = "called"
    /\ UNCHANGED <<pschema, pmode, pidx, perr, pemitted, notPlanVars>>

NextPlan == PlanNextField \/ Emit \/ Call

SpecPlan == InitPlan /\ [][NextPlan]_vars

\* the #[sensitive..] and #[not_sensitive..] attributes of a field
SensitivityAnnotations(f) ==
    {k \in 1..Len(f.attrs) : f.attrs[k].path \in {"sensitive", "not_sensitive"}}

\* the fields with two or more of them
DoublyAnnotated ==
    {i \in 1..Len(pschema) : Cardinality(SensitivityAnnotations(pschema[i])) >= 2}

\* the fields with one well-formed annotation, any other attributes, and a
\* type the annotation is allowed on
SinglyAnnotated ==
    {i \in 1..Len(pschema) :
        /\ Cardinality(SensitivityAnnotations(pschema[i])) = 1
        /\ \A k \in SensitivityAnnotations(pschema[i]) :
                pschema[i].attrs[k] \in
                    {Attr("sensitive", "List", "Default"),
                     Attr("sensitive", "List", "Token"),
                     Attr("not_sensitive", "Path", "")}
        /\ pschema[i].ty = "String"}

\* planning never gets past field i, and nothing is emitted or called
RejectedAt(i) ==
    /\ pidx <= i
    /\ pemitted = {}
    /\ ppc \in {"planning", "error"}

ScalarUnderPolicy ==
    {i \in 1..Len(pschema) :
        LET r == parse_field_strategy(pschema[i].attrs)
        IN  /\ r.ok
            /\ r.strategy \notin {"WalkDefault", "NotSensitive"}
            /\ ~is_default_policy(r.strategy)
            /\ is_scalar_type(pschema[i].ty)}

\* C21 as stated: a scalar field under a policy marker other than the
\* erase-to-default one makes planning fail, with the scalar error when the
\* error is at that field, in the structural derive and in the display
\* derive alike.
C21_ScalarPolicyRejected ==
    \A i \in ScalarUnderPolicy :
        /\ RejectedAt(i)
        /\ (ppc = "error" /\ perr.field = i)
                => perr.msg = "scalar fields can only use #[sensitive(Default)]"

-----------------------------------------------------------------------------
(* Part 7: derive(NotSensitive) and derive(NotSensitiveDisplay)            *)

\* most fields in one struct or variant
MaxFields == 2

\* most variants in one enum
MaxVariants == 2

\* the attribute paths met on a type or a field
AttrPaths == {"sensitive", "not_sensitive", "doc"}

\* a type declaration: the derive on it, the attributes of the type itself,
\* its kind, and per variant (a struct is one variant) the attribute paths of
\* each field
Decl(derive, attrs, kind, variants) ==
    [derive |-> derive, attrs |-> attrs, kind |-> kind, variants |-> variants]

\* the outcome of a derive: accepted, or the first error and where it is at
Accepted == [ok |-> TRUE, msg |-> "", at |-> <<>>]

Rejected(msg, at) == [ok |-> FALSE, msg |-> msg, at |-> at]

\* the fields of the declaration in the order the derive visits them:
\* <<variant, field>>
FieldSlots(decl) ==
    UNION {{<<v, f>> : f \in 1..Len(decl.variants[v])} : v \in 1..Len(decl.variants)}

Before(s, t) == s[1] < t[1] \/ (s[1] = t[1] /\ s[2] < t[2])

\* the first of a set of slots in visiting order; <<>> if there is none
FirstSlot(S) == IF S = {} THEN <<>> ELSE CHOOSE s \in S : \A t \in S \ {s} : Before(s, t)

\* the first element of attrs whose path is in paths; 0 if there is none
FirstAttr(attrs, paths) ==
    IF \E k \in 1..Len(attrs) : attrs[k] \in paths
    THEN CHOOSE k \in 1..Len(attrs) :
            attrs[k] \in paths /\ \A j \in 1..(k - 1) : attrs[j] \notin paths
    ELSE 0

NotAllowed(derive) ==
    "#[sensitive] attributes are not allowed on " \o derive \o " types"

NotNeeded(derive) ==
    "#[not_sensitive] attributes are not needed on " \o derive \o " types"

\* expand_not_sensitive: the attributes of the type, then of every field, in
\* order; the first #[sensitive] or #[not_sensitive] met is the error
expand_not_sensitive(decl) ==
    LET both == {"sensitive", "not_sensitive"}
        msg(path) == IF path = "sensitive" THEN NotAllowed("NotSensitive")
                     ELSE NotNeeded("NotSensitive")
        k == FirstAttr(decl.attrs, both)
        bad == {s \in FieldSlots(decl) : FirstAttr(decl.variants[s[1]][s[2]], both) # 0}
        s == FirstSlot(bad)
    IN  IF k # 0 THEN Rejected(msg(decl.attrs[k]), <<0, 0>>)
        ELSE IF bad # {}
        THEN LET attrs == decl.variants[s[1]][s[2]]
             IN  Rejected(msg(attrs[FirstAttr(attrs, both)]), s)
        ELSE Accepted

\* expand_not_sensitive_display: #[sensitive] on the type or on any field,
\* then #[not_sensitive] on any field
expand_not_sensitive_display(decl) ==
    LET onType == FirstAttr(decl.attrs, {"sensitive"}) # 0
        sens == {s \in FieldSlots(decl) :
                    FirstAttr(decl.variants[s[1]][s[2]], {"sensitive"}) # 0}
        nots == {s \in FieldSlots(decl) :
                    FirstAttr(decl.variants[s[1]][s[2]], {"not_sensitive"}) # 0}
    IN  IF onType THEN Rejected(NotAllowed("NotSensitiveDisplay"), <<0, 0>>)
        ELSE IF sens # {} THEN Rejected(NotAllowed("NotSensitiveDisplay"), FirstSlot(sens))
        ELSE IF nots # {} THEN Rejected(NotNeeded("NotSensitiveDisplay"), FirstSlot(nots))
        ELSE Accepted

\* the derive named on the declaration
expand_decl(decl) ==
    IF decl.derive = "NotSensitive" THEN expand_not_sensitive(decl)
    ELSE expand_not_sensitive_display(decl)

\* the emitted fn redact_with(self, _mapper) -> Self { self }
NotSensitive_redact_with(v) == v

\* the attribute lists of a type or a field
NsAttrLists == UNION {[1..n -> AttrPaths] : n \in 0..1}

NsVariants == UNION {[1..n -> NsAttrLists] : n \in 0..MaxFields}

Decls ==
    {Decl(d, a, "struct", <<v>>) :
        d \in {"NotSensitive", "NotSensitiveDisplay"}, a \in NsAttrLists, v \in NsVariants}
    \cup {Decl(d, a, "enum", vs) :
        d \in {"NotSensitive", "NotSensitiveDisplay"}, a \in NsAttrLists,
        vs \in UNION {[1..n -> NsVariants] : n \in 1..MaxVariants}}

\* values of the declared type
NsValues == {Struct("S", <<>>), Struct("S", <<Field("WalkDefault", Str(<<"a">>))>>)}

InitNs ==
    /\ TextIdle
    /\ JsonIdle
    /\ WalkIdle
    /\ ArcIdle
    /\ StackIdle
    /\ PlanIdle
    /\ GenIdle
    /\ ModeIdle
    /\ TplIdle
    /\ ndecl \in Decls
    /\ nerr = <<>>
    /\ nemitted = {}
    /\ nval = <<>>
    /\ nout = <<>>
    /\ npc = "declared"

\* the derive runs: it emits the error alone, or the implementations
Expand ==
    /\ npc = "declared"
    /\ LET r == expand_decl(ndecl)
       IN  IF r.ok
           THEN /\ nemitted' = {"RedactableContainer"}
                        \cup (IF ndecl.derive = "NotSensitiveDisplay"
                              THEN {"RedactableDisplay"} ELSE {})
                /\ npc' = "emitted"
                /\ UNCHANGED nerr
           ELSE /\ nerr' = [at |-> r.at, msg |-> r.msg]
                /\ npc' = "error"
                /\ UNCHANGED nemitted
    /\ UNCHANGED <<ndecl, nval, nout, notNsVars>>

\* the program compiles and calls redact_with on a value of the type
NsRedactWith(v) ==
    /\ npc \in {"emitted", "called"}
    /\ "RedactableContainer" \in nemitted
    /\ nval' = v
    /\ nout' = NotSensitive_redact_with(v)
    /\ npc' = "called"
    /\ UNCHANGED <<ndecl, nerr, nemitted, notNsVars>>

NextNs ==
    \/ Expand
    \/ \E v \in NsValues : NsRedactWith(v)

SpecNs == InitNs /\ [][NextNs]_vars

\* a sensitivity annotation on the type itself or on one of its fields
NsAnnotated ==
    \/ FirstAttr(ndecl.attrs, {"sensitive", "not_sensitive"}) # 0
    \/ \E s \in FieldSlots(ndecl) :
            FirstAttr(ndecl.variants[s[1]][s[2]], {"sensitive", "not_sensitive"}) # 0

\* C22 as stated: a type declared always non-sensitive with a sensitivity
\* annotation on itself or on a field of the record or of a variant is
\* rejected with an error and nothing is emitted; a type with none is
\* accepted and its redact_with gives back the value it is called on.
C22_NotSensitiveRejectsAnnotations ==
    /\ NsAnnotated => /\ npc \in {"declared", "error"}
                      /\ nemitted = {}
    /\ npc = "error" => NsAnnotated /\ nerr.msg # ""
    /\ npc = "called" => nout = nval

-----------------------------------------------------------------------------
(* Part 8: the generic parameters the derive collects for its bounds       *)

\* deepest nesting of type shapes in a field type
MaxNest == 2

\* the type parameters of the struct
TypeParams == {"T", "U"}

\* a syn::Type: its kind, the segments of its path, and its inner types (the
\* angle-bracketed arguments of the last segment, or the elements)
Ty(kind, segs, args) == [kind |-> kind, segs |-> segs, args |-> args]

TyPath(segs, args) == Ty("Path", segs, args)

\* the ways the path of PhantomData is written
PhantomSpellings ==
    {<<"PhantomData">>, <<"marker", "PhantomData">>, <<"std", "marker", "PhantomData">>}

\* types without inner types: parameters, an associated type of one, a
\* string and a scalar
LeafTys ==
    {TyPath(<<"T">>, <<>>), TyPath(<<"U">>, <<>>), TyPath(<<"T", "Item">>, <<>>),
     TyPath(<<"String">>, <<>>), TyPath(<<"i32">>, <<>>)}

\* the shapes one type is put in
Shapes(x) ==
    {TyPath(<<"Option">>, <<x>>), Ty("Reference", <<>>, <<x>>), Ty("Slice", <<>>, <<x>>),
     Ty("Array", <<>>, <<x>>), Ty("BareFn", <<>>, <<x, TyPath(<<"String">>, <<>>)>>),
     Ty("Tuple", <<>>, <<x, TyPath(<<"PhantomData">>, <<TyPath(<<"T">>, <<>>)>>)>>)}
    \cup {TyPath(p, <<x>>) : p \in PhantomSpellings}

RECURSIVE Tys(_)
\* the types nested n deep at most
Tys(n) ==
    IF n = 0 THEN LeafTys
    ELSE LET S == Tys(n - 1) IN S \cup UNION {Shapes(x) : x \in S}

\* types.rs: a bare primitive name
is_scalar(ty) ==
    /\ ty.kind = "Path"
    /\ Len(ty.segs) = 1
    /\ ty.args = <<>>
    /\ is_scalar_type(ty.segs[1])

\* push_if_generic: a type parameter not yet in the list is pushed
push_if_generic(ident, result) ==
    IF ident \in TypeParams /\ ~(\E k \in 1..Len(result) : result[k] = ident)
    THEN Append(result, ident)
    ELSE result

RECURSIVE push_segments(_, _, _)
\* for segment in &path.segments: push_if_generic, from segment i on
push_segments(segs, i, result) ==
    IF i > Len(segs) THEN result
    ELSE push_segments(segs, i + 1, push_if_generic(segs[i], result))

RECURSIVE visit_type(_, _)
RECURSIVE visit_types(_, _, _)
\* a slip: only the unqualified name PhantomData is skipped
visit_path_BareOnly(ty, result) ==
    IF ty.segs = <<"PhantomData">> THEN result
    ELSE visit_types(ty.args, 1, push_segments(ty.segs, 1, result))

\* visit_path: a path ending in PhantomData is skipped whole; otherwise every
\* segment and the arguments are visited
visit_path(ty, result) ==
    IF ty.segs # <<>> /\ ty.segs[Len(ty.segs)] = "PhantomData" THEN result
    ELSE visit_types(ty.args, 1, push_segments(ty.segs, 1, result))

\* the inner types visited in order, from the i-th on
visit_types(tys, i, result) ==
    IF i > Len(tys) THEN result
    ELSE visit_types(tys, i + 1, visit_type(tys[i], result))

\* visit_type: by the kind of type; kinds without inner types collect nothing
visit_type(ty, result) ==
    CASE ty.kind = "Path" -> visit_path(ty, result)
      [] ty.kind \in {"Reference", "Ptr", "Slice", "Array", "Paren", "Group",
                      "Tuple", "BareFn"} -> visit_types(ty.args, 1, result)
      [] OTHER -> result

collect_generics_from_type(ty, result) == visit_type(ty, result)

\* the DeriveContext with nothing collected
EmptyContext ==
    [used_generics |-> <<>>, policy_applicable_generics |-> <<>>,
     debug_redacted_generics |-> <<>>, debug_unredacted_generics |-> <<>>]

\* what generate_field_transform returns and leaves in the context
Planned(step, ctx) == [ok |-> TRUE, step |-> step, ctx |-> ctx]

PlanFailed(ctx) == [ok |-> FALSE, step |-> "", ctx |-> ctx]

\* the walk arm: the parameters of ty go to the container list and to both
\* debug lists
WalkArm(ty, ctx) ==
    Planned("redact_with",
        [ctx EXCEPT
            !.used_generics = collect_generics_from_type(ty, @),
            !.debug_redacted_generics = collect_generics_from_type(ty, @),
            !.debug_unredacted_generics = collect_generics_from_type(ty, @)])

\* a slip: a marker named Error is treated as every other marker
generate_step_NoErrorArm(strategy, ty, ctx) ==
    IF strategy = "WalkDefault"
    THEN IF is_scalar(ty) THEN Planned("", ctx) ELSE WalkArm(ty, ctx)
    ELSE IF is_scalar(ty)
    THEN IF is_default_policy(strategy) THEN Planned("map_scalar", ctx) ELSE PlanFailed(ctx)
    ELSE Planned("apply_policy::<" \o strategy \o ">",
            [ctx EXCEPT
                !.policy_applicable_generics = collect_generics_from_type(ty, @),
                !.debug_unredacted_generics = collect_generics_from_type(ty, @)])

\* generate_field_transform with its context: the step emitted for the field
\* and the parameters collected for it
generate_step(strategy, ty, ctx) ==
    IF strategy = "WalkDefault"
    THEN IF is_scalar(ty) THEN Planned("", ctx) ELSE WalkArm(ty, ctx)
    ELSE IF is_scalar(ty)
    THEN IF is_default_policy(strategy) THEN Planned("map_scalar", ctx) ELSE PlanFailed(ctx)
    ELSE IF strategy = "Error" THEN WalkArm(ty, ctx)
    ELSE Planned("apply_policy::<" \o strategy \o ">",
            [ctx EXCEPT
                !.policy_applicable_generics = collect_generics_from_type(ty, @),
                !.debug_unredacted_generics = collect_generics_from_type(ty, @)])

\* the members of a list of parameters
Members(list) == {list[k] : k \in 1..Len(list)}

\* add_container_bounds, add_policy_applicable_bounds and add_debug_bounds:
\* the bounds each type parameter gets in the emitted impls
add_bounds(ctx) ==
    [p \in TypeParams |->
        (IF p \in Members(ctx.used_generics) THEN {"RedactableContainer"} ELSE {})
        \cup (IF p \in Members(ctx.policy_applicable_generics)
              THEN {"PolicyApplicable"} ELSE {})
        \cup (IF p \in Members(ctx.debug_redacted_generics) THEN {"Debug(redacted)"} ELSE {})
        \cup (IF p \in Members(ctx.debug_unredacted_generics)
              THEN {"Debug(unredacted)"} ELSE {})]

GenField(strategy, ty) == [strategy |-> strategy, ty |-> ty]

GenStrategies == {"WalkDefault", "Default", "Token", "Custom", "Error"}

\* a second field: none, or one that uses a parameter outside PhantomData
OtherFields ==
    {GenField("WalkDefault", TyPath(<<"Vec">>, <<TyPath(<<"T">>, <<>>)>>)),
     GenField("Token", TyPath(<<"U">>, <<>>)),
     GenField("Error", TyPath(<<"Box">>, <<TyPath(<<"U">>, <<>>)>>)),
     GenField("WalkDefault", TyPath(<<"PhantomData">>, <<TyPath(<<"U">>, <<>>)>>)),
     GenField("Token", TyPath(<<"i32">>, <<>>))}

GenSchemas ==
    {<<GenField(s, ty)>> : s \in GenStrategies, ty \in Tys(MaxNest)}
    \cup {<<GenField(s, ty), f>> : s \in GenStrategies, ty \in Tys(MaxNest), f \in OtherFields}

InitGen ==
    /\ TextIdle
    /\ JsonIdle
    /\ WalkIdle
    /\ ArcIdle
    /\ StackIdle
    /\ PlanIdle
    /\ NsIdle
    /\ ModeIdle
    /\ TplIdle
    /\ gschema \in GenSchemas
    /\ gidx = 1
    /\ gctx = EmptyContext
    /\ gsteps = <<>>
    /\ gbounds = [p \in TypeParams |-> {}]
    /\ gpc = "planning"

\* one turn of the loop over the fields
GenerateFieldTransform ==
    /\ gpc = "planning"
    /\ gidx <= Len(gschema)
    /\ LET r == generate_step(gschema[gidx].strategy, gschema[gidx].ty, gctx)
       IN  IF r.ok
           THEN /\ gctx' = r.ctx
                /\ gsteps' = Append(gsteps, r.step)
                /\ gidx' = gidx + 1
                /\ UNCHANGED gpc
           ELSE /\ gpc' = "error"
                /\ UNCHANGED <<gctx, gsteps, gidx>>
    /\ UNCHANGED <<gschema, gbounds, notGenVars>>

\* every field is planned: expand puts the bounds on the impls it emits
AddBounds ==
    /\ gpc = "planning"
    /\ gidx > Len(gschema)
    /\ gbounds' = add_bounds(gctx)
    /\ gpc' = "emitted"
    /\ UNCHANGED <<gschema, gidx, gctx, gsteps, notGenVars>>

NextGen == GenerateFieldTransform \/ AddBounds

SpecGen == InitGen /\ [][NextGen]_vars

RECURSIVE OutsideParams(_)
\* the type parameters that occur in ty somewhere outside PhantomData
OutsideParams(ty) ==
    IF ty.kind = "Path" /\ ty.segs \in PhantomSpellings THEN {}
    ELSE (Members(ty.segs) \cap TypeParams)
         \cup UNION {OutsideParams(ty.args[k]) : k \in 1..Len(ty.args)}

\* the lists of the context that hold parameter p
ListsWith(p) ==
    {l \in {"used_generics", "policy_applicable_generics",
            "debug_redacted_generics", "debug_unredacted_generics"} :
        p \in Members(gctx[l])}

PolicyFields ==
    {i \in 1..Len(gsteps) :
        gschema[i].strategy # "WalkDefault" /\ ~is_scalar(gschema[i].ty)}

\* field i got the apply-policy step of its marker, and the parameters of its
\* type are in the PolicyApplicable list and bound
AppliesPolicy(i) ==
    /\ gsteps[i] = "apply_policy::<" \o gschema[i].strategy \o ">"
    /\ \A p \in OutsideParams(gschema[i].ty) :
            /\ p \in Members(gctx.policy_applicable_generics)
            /\ gpc = "emitted" => "PolicyApplicable" \in gbounds[p]

\* C28 as stated: every non-scalar field with a policy marker, whatever the
\* marker's name, gets the apply-policy step, never the walk, and the type
\* parameters of its type go to the PolicyApplicable list.
C28_PolicyFieldsApplyPolicyAnyMarker ==
    \A i \in PolicyFields : AppliesPolicy(i) /\ gsteps[i] # "redact_with"

\* C28, amended: so it is for every marker not named Error; a non-scalar
\* field under the marker named Error gets the walk step and the type
\* parameters of its type go to the RedactableContainer list instead.
C28_PolicyFieldsApplyPolicy ==
    \A i \in PolicyFields :
        IF gschema[i].strategy # "Error"
        THEN AppliesPolicy(i) /\ gsteps[i] # "redact_with"
        ELSE /\ gsteps[i] = "redact_with"
             /\ \A p \in OutsideParams(gschema[i].ty) :
                    /\ p \in Members(gctx.used_generics)
                    /\ gpc = "emitted" => "RedactableContainer" \in gbounds[p]

C28_Witness ==
    /\ gpc = "emitted"
    /\ gschema = <<GenField("Custom", TyPath(<<"Option">>, <<TyPath(<<"T">>, <<>>)>>)),
                   GenField("Error", TyPath(<<"Box">>, <<TyPath(<<"U">>, <<>>)>>))>>
    /\ gsteps = <<"apply_policy::<Custom>", "redact_with">>
    /\ gbounds["T"] = {"PolicyApplicable", "Debug(unredacted)"}
    /\ gbounds["U"] = {"RedactableContainer", "Debug(redacted)", "Debug(unredacted)"}

-----------------------------------------------------------------------------
(* Part 9: the format spec of a placeholder and the mode it selects         *)

\* longest format spec, in chars
MaxSpecLen == 3

\* the chars a format spec is made of here
SpecChars ==
    {"?", "$", "*", "x", "X", "o", "b", "p", "e", "E", ">", "8", "#", ".", " "}

Specs == UNION {[1..n -> SpecChars] : n \in 0..MaxSpecLen}

\* the mode of a placeholder, or the error
ModeOk(mode) == [ok |-> TRUE, mode |-> mode, msg |-> ""]

ModeErr(msg) == [ok |-> FALSE, mode |-> "", msg |-> msg]

RECURSIVE trim_start(_)
trim_start(s) == IF s # <<>> /\ Head(s) = " " THEN trim_start(Tail(s)) ELSE s

RECURSIVE trim_end(_)
trim_end(s) ==
    IF s # <<>> /\ s[Len(s)] = " " THEN trim_end(SubSeq(s, 1, Len(s) - 1)) ELSE s

\* str::trim
trim(s) == trim_end(trim_start(s))

\* str::contains(char)
contains(s, ch) == \E k \in 1..Len(s) : s[k] = ch

\* a slip: the last char is looked at before the dynamic specifiers
format_mode_from_spec_LastFirst(spec_part) ==
    LET spec == trim(spec_part)
    IN  IF spec = <<>> THEN ModeOk("Display")
        ELSE IF spec[Len(spec)] = "?" THEN ModeOk("Debug")
        ELSE IF contains(spec, "$") \/ contains(spec, "*")
        THEN ModeErr("format specifiers with dynamic width/precision are not supported")
        ELSE IF spec[Len(spec)] \in {"x", "X", "o", "b", "p", "e", "E"}
        THEN ModeErr("unsupported format specifier; only Display and Debug are supported")
        ELSE ModeOk("Display")

\* format_mode_from_spec
format_mode_from_spec(spec_part) ==
    LET spec == trim(spec_part)
    IN  IF spec = <<>> THEN ModeOk("Display")
        ELSE IF contains(spec, "$") \/ contains(spec, "*")
        THEN ModeErr("format specifiers with dynamic width/precision are not supported")
        ELSE IF spec[Len(spec)] = "?" THEN ModeOk("Debug")
        ELSE IF spec[Len(spec)] \in {"x", "X", "o", "b", "p", "e", "E"}
        THEN ModeErr("unsupported format specifier; only Display and Debug are supported")
        ELSE ModeOk("Display")

InitMode ==
    /\ TextIdle
    /\ JsonIdle
    /\ WalkIdle
    /\ ArcIdle
    /\ StackIdle
    /\ PlanIdle
    /\ NsIdle
    /\ GenIdle
    /\ TplIdle
    /\ mspec \in Specs
    /\ mout = <<>>
    /\ mpc = "parsed"

\* parse_placeholders hands the spec of a placeholder to format_mode_from_spec
FormatModeFromSpec ==
    /\ mpc = "parsed"
    /\ mout' = format_mode_from_spec(mspec)
    /\ mpc' = "decided"
    /\ UNCHANGED <<mspec, notModeVars>>

NextMode == FormatModeFromSpec

SpecMode == InitMode /\ [][NextMode]_vars

\* the spec ends in one of the chars
EndsIn(s, chars) == s # <<>> /\ s[Len(s)] \in chars

Dynamic(s) == contains(s, "$") \/ contains(s, "*")

BaseChars == {"x", "X", "o", "b", "p", "e", "E"}

\* C25 as stated: a spec ending in '?' selects Debug; a spec with '$' or '*'
\* is rejected; a spec ending in x, X, o, b, p, e or E is rejected; every
\* other spec, the empty one included, selects Display.
C25_ModeBySpecAsStated ==
    mpc = "decided" =>
        /\ EndsIn(mspec, {"?"}) => mout = ModeOk("Debug")
        /\ Dynamic(mspec) => ~mout.ok
        /\ EndsIn(mspec, BaseChars) => ~mout.ok
        /\ (~EndsIn(mspec, {"?"} \cup BaseChars) /\ ~Dynamic(mspec))
                => mout = ModeOk("Display")

\* C25, amended: with the blanks around the spec left out, a spec with '$' or
\* '*' anywhere is rejected whatever it ends in; of the others, one ending in
\* '?' selects Debug, one ending in x, X, o, b, p, e or E is rejected, and
\* every other, the empty one included, selects Display.
C25_ModeBySpec ==
    mpc = "decided" =>
        LET spec == trim(mspec)
        IN  /\ Dynamic(spec) => ~mout.ok
            /\ (~Dynamic(spec) /\ EndsIn(spec, {"?"})) => mout = ModeOk("Debug")
            /\ (~Dynamic(spec) /\ EndsIn(spec, BaseChars)) => ~mout.ok
            /\ (~Dynamic(spec) /\ ~EndsIn(spec, {"?"} \cup BaseChars))
                    => mout = ModeOk("Display")

C25_Witness ==
    /\ mpc = "decided"
    /\ mspec = <<"*", ">", "?">>
    /\ ~mout.ok

-----------------------------------------------------------------------------
(* Part 10: the display template of derive(SensitiveDisplay)                *)

\* most pieces (literal text or placeholder) in one template
MaxPieces == 3

AsciiDigits == {"0", "1", "2", "3", "4", "5", "6", "7", "8", "9"}

AsciiAlphabetic ==
    {"a", "b", "c", "d", "e", "f", "g", "h", "i", "j", "k", "l", "m", "n", "o",
     "p", "q", "r", "s", "t", "u", "v", "w", "x", "y", "z", "A", "B", "C", "D",
     "E", "F", "G", "H", "I", "J", "K", "L", "M", "N", "O", "P", "Q", "R", "S",
     "T", "U", "V", "W", "X", "Y", "Z"}

\* is_ident: a letter or '_' first, letters, digits and '_' after it
is_ident(s) ==
    /\ s # <<>>
    /\ s[1] \in AsciiAlphabetic \cup {"_"}
    /\ \A k \in 2..Len(s) : s[k] \in AsciiAlphabetic \cup AsciiDigits \cup {"_"}

\* the value of a decimal digit
DigitValue(c) ==
    CASE c = "0" -> 0 [] c = "1" -> 1 [] c = "2" -> 2 [] c = "3" -> 3 [] c = "4" -> 4
      [] c = "5" -> 5 [] c = "6" -> 6 [] c = "7" -> 7 [] c = "8" -> 8 [] c = "9" -> 9

RECURSIVE parse_usize(_, _)
\* str::parse::<usize> on a run of digits: -1 for a number out of range
parse_usize(s, acc) ==
    IF s = <<>> THEN acc
    ELSE LET next == acc * 10 + DigitValue(Head(s))
         IN  IF next > UsizeMax THEN -1 ELSE parse_usize(Tail(s), next)

\* the place of the first ch in s from i on; 0 if there is none
position(s, ch, i) ==
    IF \E k \in i..Len(s) : s[k] = ch
    THEN CHOOSE k \in i..Len(s) : s[k] = ch /\ \A j \in i..(k - 1) : s[j] # ch
    ELSE 0

\* PlaceholderKey
KeyNamed(name) == [kind |-> "Named", name |-> name, index |-> 0]

KeyIndex(index) == [kind |-> "Index", name |-> <<>>, index |-> index]

Placeholder(key, mode) == [key |-> key, mode |-> mode]

\* Result<Vec<Placeholder>>
Parsed(placeholders) == [ok |-> TRUE, placeholders |-> placeholders, msg |-> ""]

ParseFailed(msg) == [ok |-> FALSE, placeholders |-> <<>>, msg |-> msg]

RECURSIVE parse_placeholders_from(_, _, _, _)
\* the loop of parse_placeholders from char i on
parse_placeholders_from(chars, i, implicit_index, placeholders) ==
    IF i > Len(chars) THEN Parsed(placeholders)
    ELSE IF chars[i] = "{"
    THEN IF i < Len(chars) /\ chars[i + 1] = "{"
         THEN parse_placeholders_from(chars, i + 2, implicit_index, placeholders)
         ELSE LET close == position(chars, "}", i + 1)
                  inside == SubSeq(chars, i + 1, close - 1)
                  colon == position(inside, ":", 1)
                  arg_part == trim(IF colon = 0 THEN inside
                                   ELSE SubSeq(inside, 1, colon - 1))
                  spec_part == IF colon = 0 THEN <<>>
                               ELSE SubSeq(inside, colon + 1, Len(inside))
                  mode == format_mode_from_spec(spec_part)
              IN  IF close = 0 THEN ParseFailed("unmatched { in format string")
                  ELSE IF ~mode.ok THEN ParseFailed(mode.msg)
                  ELSE IF arg_part = <<>>
                  THEN parse_placeholders_from(chars, close + 1, implicit_index + 1,
                            Append(placeholders,
                                   Placeholder(KeyIndex(implicit_index), mode.mode)))
                  ELSE IF \A k \in 1..Len(arg_part) : arg_part[k] \in AsciiDigits
                  THEN IF parse_usize(arg_part, 0) < 0 THEN ParseFailed("invalid index")
                       ELSE parse_placeholders_from(chars, close + 1, implicit_index,
                                Append(placeholders,
                                       Placeholder(KeyIndex(parse_usize(arg_part, 0)),
                                                   mode.mode)))
                  ELSE IF is_ident(arg_part)
                  THEN parse_placeholders_from(chars, close + 1, implicit_index,
                            Append(placeholders, Placeholder(KeyNamed(arg_part), mode.mode)))
                  ELSE ParseFailed("unsupported format placeholder")
    ELSE IF chars[i] = "}"
    THEN IF i < Len(chars) /\ chars[i + 1] = "}"
         THEN parse_placeholders_from(chars, i + 2, implicit_index, placeholders)
         ELSE ParseFailed("unmatched } in format string")
    ELSE parse_placeholders_from(chars, i + 1, implicit_index, placeholders)

parse_placeholders(template) == parse_placeholders_from(template, 1, 0, <<>>)

\* a slip: the later reference replaces the mode of the earlier one
merge_mode_LastWins(existing, next) == next

\* merge_mode
merge_mode(existing, next) ==
    CASE existing = "Both" \/ next = "Both" -> "Both"
      [] existing = "Debug" /\ next = "Display" -> "Both"
      [] existing = "Display" /\ next = "Debug" -> "Both"
      [] OTHER -> existing

\* FieldInfo, with the value the field holds when the struct is formatted
FieldInfo(ident, ty, strategy, val) ==
    [ident |-> ident, ty |-> ty, strategy |-> strategy, val |-> val]

\* an argument of the format string: the field it renders and its mode
ArgEntry(field, mode) == [field |-> field, mode |-> mode]

\* a slot of positional_args no placeholder refers to
NoEntry == ArgEntry(0, "None")

\* Result<FormatArgsOutput>: the named and the positional table
Built(named, positional) ==
    [ok |-> TRUE, named |-> named, positional |-> positional, msg |-> ""]

BuildFailed(msg) == [ok |-> FALSE, named |-> <<>>, positional |-> <<>>, msg |-> msg]

\* a slip: a name no field has falls back on the first field
find_field_OrFirst(fields, name) ==
    IF \E k \in 1..Len(fields) : fields[k].ident = name
    THEN CHOOSE k \in 1..Len(fields) :
            fields[k].ident = name /\ \A j \in 1..(k - 1) : fields[j].ident # name
    ELSE 1

\* fields.iter().find(|field| field.ident == name): its place, 0 if none
find_field(fields, name) ==
    IF \E k \in 1..Len(fields) : fields[k].ident = name
    THEN CHOOSE k \in 1..Len(fields) :
            fields[k].ident = name /\ \A j \in 1..(k - 1) : fields[j].ident # name
    ELSE 0

\* positional_args.resize_with(index + 1, || None) when it is too short
resize_with(positional, index) ==
    IF Len(positional) <= index
    THEN positional \o [k \in 1..(index + 1 - Len(positional)) |-> NoEntry]
    ELSE positional

RECURSIVE build_from(_, _, _, _, _)
\* the loop of build_format_args over the placeholders, from the i-th on
build_from(placeholders, i, fields, named, positional) ==
    IF i > Len(placeholders) THEN Built(named, positional)
    ELSE LET key == placeholders[i].key
             mode == placeholders[i].mode
         IN  IF key.kind = "Named"
             THEN LET field == find_field(fields, key.name)
                      entry == IF key.name \in DOMAIN named THEN named[key.name]
                               ELSE ArgEntry(field, mode)
                      merged == [entry EXCEPT !.mode = merge_mode(@, mode)]
                  IN  IF field = 0 THEN BuildFailed("unknown field in format string")
                      ELSE build_from(placeholders, i + 1, fields,
                               [n \in DOMAIN named \cup {key.name} |->
                                    IF n = key.name THEN merged ELSE named[n]],
                               positional)
             ELSE LET resized == resize_with(positional, key.index)
                      slot == key.index + 1
                      entry == IF resized[slot] # NoEntry THEN resized[slot]
                               ELSE ArgEntry(slot, mode)
                      merged == [entry EXCEPT !.mode = merge_mode(@, mode)]
                  IN  IF key.index >= Len(fields)
                      THEN BuildFailed("unknown positional field index in format string")
                      ELSE build_from(placeholders, i + 1, fields, named,
                               [resized EXCEPT ![slot] = merged])

\* build_format_args: the placeholders are parsed, then entered in the tables
build_format_args(template, fields) ==
    LET p == parse_placeholders(template)
    IN  IF ~p.ok THEN BuildFailed(p.msg)
        ELSE build_from(p.placeholders, 1, fields, << >>, <<>>)

\* positional_args.into_iter().flatten(): the positional arguments handed to
\* format_args!, the unreferenced slots left out
positional_idents(plan) == SelectSeq(plan.positional, LAMBDA e : e # NoEntry)

\* prelude_bindings: one let binding, hence one redaction step, per entry of
\* the named table and per referenced slot of the positional one
prelude_bindings(plan) ==
    {[arg |-> KeyNamed(n), field |-> plan.named[n].field,
      mode |-> plan.named[n].mode] : n \in DOMAIN plan.named}
    \cup {[arg |-> KeyIndex(k - 1), field |-> plan.positional[k].field,
           mode |-> plan.positional[k].mode] :
            k \in {j \in 1..Len(plan.positional) : plan.positional[j] # NoEntry}}

\* the value an argument is bound to: how it is wrapped, its type, its text
ArgValue(wrap, ty, s) == [wrap |-> wrap, ty |-> ty, s |-> s]

\* PolicyApplicableRef::apply_policy_ref::<P, _> on a String field: the
\* policy applied to the string, as a new String
apply_policy_ref(P, f) == ArgValue("raw", "String", apply_to(RedactionPolicy(P), f.val))

\* a slip: a scalar under the erase-to-default marker is rendered as it is
field_redacted_expr_ScalarKept(f) ==
    IF f.strategy = "WalkDefault" THEN ArgValue("RedactedDisplayRef", f.ty, f.val)
    ELSE IF f.strategy = "NotSensitive" THEN ArgValue("raw", f.ty, f.val)
    ELSE IF is_scalar_type(f.ty) THEN ArgValue("raw", f.ty, f.val)
    ELSE apply_policy_ref(f.strategy, f)

\* redacted_expr_for_field on a FieldInfo: the expression bound to the
\* argument, by the strategy of the field
field_redacted_expr(f) ==
    IF f.strategy = "WalkDefault" THEN ArgValue("RedactedDisplayRef", f.ty, f.val)
    ELSE IF f.strategy = "NotSensitive" THEN ArgValue("raw", f.ty, f.val)
    ELSE IF is_scalar_type(f.ty) /\ is_default_policy(f.strategy)
    THEN ArgValue("raw", f.ty, map_scalar(Scalar(f.ty, f.val[1])).s)
    ELSE apply_policy_ref(f.strategy, f)

\* <String as Debug>::fmt, for text without quotes, backslashes or controls
DebugStr(s) == <<"\"">> \o s \o <<"\"">>

\* Display::fmt or Debug::fmt of an argument: RedactedDisplayRef writes
\* fmt_redacted either way, and String and the scalars pass through there
fmt_arg(v, mode) ==
    IF v.wrap = "RedactedDisplayRef" THEN v.s
    ELSE IF mode = "Debug" /\ v.ty = "String" THEN DebugStr(v.s)
    ELSE v.s

\* format_args!(template, positional.., name = arg..) as rustc checks it: the
\* index of every positional placeholder is below the number of positional
\* arguments, every named placeholder has its argument, no argument is unused
format_args_accepted(placeholders, positional, named) ==
    /\ \A k \in 1..Len(placeholders) :
            IF placeholders[k].key.kind = "Index"
            THEN placeholders[k].key.index < Len(positional)
            ELSE placeholders[k].key.name \in DOMAIN named
    /\ \A a \in 1..Len(positional) :
            \E k \in 1..Len(placeholders) :
                placeholders[k].key = KeyIndex(a - 1)
    /\ \A n \in DOMAIN named :
            \E k \in 1..Len(placeholders) : placeholders[k].key = KeyNamed(n)

\* the field the k-th placeholder is bound to by format_args!: the
\* positional argument the index counts to, or the argument of that name
bound_field(placeholders, k, positional, named) ==
    IF placeholders[k].key.kind = "Index"
    THEN positional[placeholders[k].key.index + 1].field
    ELSE named[placeholders[k].key.name].field

RECURSIVE write_fmt(_, _, _, _, _, _)
\* f.write_fmt(format_args!(..)): the text is copied, {{ and }} written as one
\* brace, the k-th placeholder replaced by its argument in the mode of its
\* own spec
write_fmt(chars, i, k, placeholders, args, out) ==
    IF i > Len(chars) THEN out
    ELSE IF chars[i] \in {"{", "}"} /\ i < Len(chars) /\ chars[i + 1] = chars[i]
    THEN write_fmt(chars, i + 2, k, placeholders, args, Append(out, chars[i]))
    ELSE IF chars[i] = "{"
    THEN write_fmt(chars, position(chars, "}", i + 1) + 1, k + 1, placeholders, args,
                   out \o fmt_arg(args[k], placeholders[k].mode))
    ELSE write_fmt(chars, i + 1, k, placeholders, args, Append(out, chars[i]))

\* fmt_redacted as the derive emitted it, on the struct with these fields
fmt_redacted(template, fields, plan) ==
    LET placeholders == parse_placeholders(template).placeholders
        positional == positional_idents(plan)
        args == [k \in 1..Len(placeholders) |->
                    field_redacted_expr(
                        fields[bound_field(placeholders, k, positional, plan.named)])]
    IN  write_fmt(template, 1, 1, placeholders, args, <<>>)

\* the names and the values of the fields, as chars
N_user == <<"u", "s", "e", "r">>

N_password == <<"p", "a", "s", "s", "w", "o", "r", "d">>

N_field(d) == <<"f", "i", "e", "l", "d", "_", d>>

V_alice == <<"a", "l", "i", "c", "e">>

V_hunter2 == <<"h", "u", "n", "t", "e", "r", "2">>

\* struct Login { #[not_sensitive] user: String, #[sensitive(Default)]
\* password: String }, a tuple struct (String, #[sensitive(Default)] usize)
\* and struct Session { #[sensitive(Token)] user: String }
TplSchemas ==
    {<<FieldInfo(N_user, "String", "NotSensitive", V_alice),
       FieldInfo(N_password, "String", "Default", V_hunter2)>>,
     <<FieldInfo(N_field("0"), "String", "WalkDefault", V_alice),
       FieldInfo(N_field("1"), "usize", "Default", <<"3">>)>>,
     <<FieldInfo(N_user, "String", "Token", V_hunter2)>>}

\* {arg} and {arg:spec}
Braced(arg) == <<"{">> \o arg \o <<"}">>

BracedSpec(arg, spec) == <<"{">> \o arg \o <<":">> \o spec \o <<"}">>

\* the pieces a template is put together from: literal text, escaped braces,
\* placeholders in every form, and broken ones
Pieces ==
    {N_user \o <<" ">>, <<" ", "s", "e", "c", "r", "e", "t", " ">>,
     <<"{", "{">>, <<"}", "}">>, <<"{">>,
     Braced(<<>>), Braced(<<"0">>), Braced(<<"1">>), Braced(<<"2">>),
     Braced(N_user), Braced(N_password), Braced(<<"n", "o", "p", "e">>),
     BracedSpec(N_user, <<"?">>), BracedSpec(<<"0">>, <<"?">>),
     BracedSpec(<<"1">>, <<"?">>), BracedSpec(<<>>, <<"x">>)}

RECURSIVE Concat(_)
Concat(ps) == IF ps = <<>> THEN <<>> ELSE Head(ps) \o Concat(Tail(ps))

\* "user {user} secret {password}"
ExampleTemplate ==
    N_user \o <<" ">> \o Braced(N_user)
        \o <<" ", "s", "e", "c", "r", "e", "t", " ">> \o Braced(N_password)

Templates ==
    {Concat(ps) : ps \in UNION {[1..n -> Pieces] : n \in 0..MaxPieces}}
        \cup {ExampleTemplate}

InitTpl ==
    /\ TextIdle
    /\ JsonIdle
    /\ WalkIdle
    /\ ArcIdle
    /\ StackIdle
    /\ PlanIdle
    /\ NsIdle
    /\ GenIdle
    /\ ModeIdle
    /\ tfields \in TplSchemas
    /\ ttemplate \in Templates
    /\ tplan = <<>>
    /\ tout = <<>>
    /\ tpc = "declared"

\* derive(SensitiveDisplay) runs: the error alone, or the implementation
DeriveDisplay ==
    /\ tpc = "declared"
    /\ tplan' = build_format_args(ttemplate, tfields)
    /\ tpc' = IF tplan'.ok THEN "emitted" ELSE "error"
    /\ UNCHANGED <<tfields, ttemplate, tout, notTplVars>>

\* rustc expands format_args! in the emitted body
Rustc ==
    /\ tpc = "emitted"
    /\ tpc' = IF format_args_accepted(parse_placeholders(ttemplate).placeholders,
                                      positional_idents(tplan), tplan.named)
              THEN "compiled" ELSE "rustc_error"
    /\ UNCHANGED <<tfields, ttemplate, tplan, tout, notTplVars>>

\* the program calls redacted_display() on the struct and formats it
FmtRedacted ==
    /\ tpc = "compiled"
    /\ tout' = fmt_redacted(ttemplate, tfields, tplan)
    /\ tpc' = "formatted"
    /\ UNCHANGED <<tfields, ttemplate, tplan, notTplVars>>

NextTpl == DeriveDisplay \/ Rustc \/ FmtRedacted

SpecTpl == InitTpl /\ [][NextTpl]_vars

\* the placeholders of the template
TplPlaceholders == parse_placeholders(ttemplate).placeholders

\* the field the k-th placeholder refers to: the one at its index, or the
\* one of its name
ReferredField(k) ==
    IF TplPlaceholders[k].key.kind = "Index" THEN TplPlaceholders[k].key.index + 1
    ELSE find_field(tfields, TplPlaceholders[k].key.name)

\* the text a field is to be rendered as: a passthrough field by its own
\* Display or Debug, a scalar under the erase-to-default marker as the erased
\* scalar, a string under a policy as the policy applied to it, a walked
\* string or scalar as it is
StrategyText(f, mode) ==
    CASE f.strategy = "NotSensitive" ->
            IF mode = "Debug" /\ f.ty = "String" THEN DebugStr(f.val) ELSE f.val
      [] f.strategy = "WalkDefault" -> f.val
      [] f.strategy = "Default" /\ f.ty = "usize" -> <<"0">>
      [] OTHER ->
            LET applied == apply_to(RedactionPolicy(f.strategy), f.val)
            IN  IF mode = "Debug" THEN DebugStr(applied) ELSE applied

RECURSIVE Substitute(_, _, _, _)
\* the template from char i on with its k-th and later placeholders replaced
\* by texts[k].., the rest copied, doubled braces as one
Substitute(chars, i, k, texts) ==
    IF i > Len(chars) THEN <<>>
    ELSE IF chars[i] \in {"{", "}"} /\ i < Len(chars) /\ chars[i + 1] = chars[i]
    THEN <<chars[i]>> \o Substitute(chars, i + 2, k, texts)
    ELSE IF chars[i] = "{"
    THEN texts[k] \o Substitute(chars, position(chars, "}", i + 1) + 1, k + 1, texts)
    ELSE <<chars[i]>> \o Substitute(chars, i + 1, k, texts)

\* "user alice secret [REDACTED]"
ExampleOutput ==
    N_user \o <<" ">> \o V_alice \o <<" ", "s", "e", "c", "r", "e", "t", " ">>
        \o REDACTED_PLACEHOLDER

\* struct Login of the example
ExampleFields ==
    <<FieldInfo(N_user, "String", "NotSensitive", V_alice),
      FieldInfo(N_password, "String", "Default", V_hunter2)>>

\* C24: what fmt_redacted writes is the template with the literal text
\* copied and every placeholder replaced by the text of the field it refers
\* to, rendered by the strategy of that field; "user {user} secret
\* {password}" with passthrough user "alice" and erase-to-default password
\* "hunter2" is written as "user alice secret [REDACTED]".
C24_RenderedByStrategy ==
    tpc = "formatted" =>
        /\ tout = Substitute(ttemplate, 1, 1,
                    [k \in 1..Len(TplPlaceholders) |->
                        StrategyText(tfields[ReferredField(k)], TplPlaceholders[k].mode)])
        /\ (ttemplate = ExampleTemplate /\ tfields = ExampleFields)
                => tout = ExampleOutput

C24_Witness ==
    /\ tpc = "formatted"
    /\ ttemplate = ExampleTemplate
    /\ tfields = ExampleFields
    /\ tout = ExampleOutput

\* the placeholders that refer to field f, in the given forms
References(f, kinds) ==
    {k \in 1..Len(TplPlaceholders) :
        TplPlaceholders[k].key.kind \in kinds /\ ReferredField(k) = f}

\* the join of the modes of a set of placeholders
JoinedMode(ks) ==
    LET modes == {TplPlaceholders[k].mode : k \in ks}
    IN  IF modes = {"Display"} THEN "Display"
        ELSE IF modes = {"Debug"} THEN "Debug"
        ELSE "Both"

\* the redaction steps emitted for field f: the bindings of the named table
\* (form "Named") or of the positional one (form "Index")
StepsFor(f, kinds) ==
    {b \in prelude_bindings(tplan) :
        /\ b.field = f
        /\ b.arg.kind \in kinds}

\* C26 as stated: a field referenced by placeholders, however many and in
\* whichever order and form, gets exactly one redaction step, and the mode
\* recorded for it is the join of the modes of all of them.
C26_OneStepPerField ==
    (tplan # <<>> /\ tplan.ok) =>
        \A f \in 1..Len(tfields) :
            LET refs == References(f, {"Named", "Index"})
            IN  refs # {} =>
                    /\ Cardinality(StepsFor(f, {"Named", "Index"})) = 1
                    /\ \A b \in StepsFor(f, {"Named", "Index"}) : b.mode = JoinedMode(refs)

\* C26, amended: a field gets exactly one redaction step for all its named
\* references and one for all its positional ones, each with the join of the
\* modes of the references of its own form; a field referenced in one form
\* only gets exactly one step.
C26_OneStepPerFieldAndForm ==
    (tplan # <<>> /\ tplan.ok) =>
        \A f \in 1..Len(tfields) : \A form \in {"Named", "Index"} :
            LET refs == References(f, {form})
            IN  /\ Cardinality(StepsFor(f, {form})) = (IF refs = {} THEN 0 ELSE 1)
                /\ \A b \in StepsFor(f, {form}) : b.mode = JoinedMode(refs)

C26_Witness ==
    /\ tpc = "emitted"
    /\ tfields = ExampleFields
    /\ ttemplate = BracedSpec(N_user, <<"?">>) \o Braced(N_user) \o Braced(<<"0">>)
    /\ tplan.named[N_user] = ArgEntry(1, "Both")
    /\ tplan.positional = <<ArgEntry(1, "Display")>>

\* the placeholders that name a field the struct does not have, or an
\* index at or beyond the number of its fields
Unresolvable ==
    {k \in 1..Len(TplPlaceholders) :
        IF TplPlaceholders[k].key.kind = "Named"
        THEN \A j \in 1..Len(tfields) : tfields[j].ident # TplPlaceholders[k].key.name
        ELSE TplPlaceholders[k].key.index >= Len(tfields)}

\* C27: a template with a placeholder that names a field the struct does
\* not have, or a positional index at or beyond the number of fields, makes
\* the derive fail with an error; no implementation is emitted, compiled or
\* called.
C27_UnresolvableRejected ==
    Unresolvable # {} =>
        /\ tpc \in {"declared", "error"}
        /\ tout = <<>>
        /\ tpc = "error" =>
                /\ ~tplan.ok
                /\ tplan.msg \in {"unknown field in format string",
                                  "unknown positional field index in format string"}

C27_Witness ==
    /\ tpc = "error"
    /\ tfields = ExampleFields
    /\ ttemplate = Braced(N_password) \o Braced(<<"n", "o", "p", "e">>) \o Braced(<<"2">>)
    /\ tplan = BuildFailed("unknown field in format string")

\* the positional placeholders of the template
PositionalPlaceholders ==
    {k \in 1..Len(TplPlaceholders) : TplPlaceholders[k].key.kind = "Index"}

\* the text fmt_redacted is to write when every placeholder shows the field
\* it refers to
SubstitutedOutput ==
    Substitute(ttemplate, 1, 1,
        [k \in 1..Len(TplPlaceholders) |->
            StrategyText(tfields[ReferredField(k)], TplPlaceholders[k].mode)])

\* C30 as stated: every template the derive accepts (and that has a
\* positional placeholder) gives an implementation that formats, and each
\* positional placeholder is replaced by the redacted rendering of the field
\* at exactly its index, whichever other indices the template refers to.
C30_PositionalByIndex ==
    (tplan # <<>> /\ tplan.ok /\ PositionalPlaceholders # {}) =>
        /\ tpc # "rustc_error"
        /\ tpc = "formatted" => tout = SubstitutedOutput

====
